---- MODULE Spec2Model ----
(***************************************************************************)
(* QuickRupee voice bot: the per-call session orchestrator (CallSession),  *)
(* the deterministic conversation state machine it drives, and the         *)
(* validators the state machine calls.                                     *)
(*                                                                         *)
(* Conventions.  A nullable value of the program (T | null) is a sequence  *)
(* of length at most one: NULL == <<>> and Some(v) == <<v>>.  A string the *)
(* program inspects character by character is named by a TLA+ string and   *)
(* its characters are given by CharsOf; confidences are in hundredths.     *)
(***************************************************************************)
EXTENDS Integers, Sequences, FiniteSets, TLC

NULL == <<>>
Some(v) == <<v>>

\* ------------------------------------------------------------------------
\* Text: the characters of every string literal of the program and of every
\* transcript the environment may deliver.
\* ------------------------------------------------------------------------
CharsOf ==
    "yes" :> <<"y","e","s">> @@
    "yeah" :> <<"y","e","a","h">> @@
    "yep" :> <<"y","e","p">> @@
    "yup" :> <<"y","u","p">> @@
    "correct" :> <<"c","o","r","r","e","c","t">> @@
    "right" :> <<"r","i","g","h","t">> @@
    "haan" :> <<"h","a","a","n">> @@
    "ha" :> <<"h","a">> @@
    "ji" :> <<"j","i">> @@
    "ji haan" :> <<"j","i"," ","h","a","a","n">> @@
    "sure" :> <<"s","u","r","e">> @@
    "absolutely" :> <<"a","b","s","o","l","u","t","e","l","y">> @@
    "definitely" :> <<"d","e","f","i","n","i","t","e","l","y">> @@
    "of course" :> <<"o","f"," ","c","o","u","r","s","e">> @@
    "that's right" :> <<"t","h","a","t","'","s"," ","r","i","g","h","t">> @@
    "no" :> <<"n","o">> @@
    "nope" :> <<"n","o","p","e">> @@
    "nah" :> <<"n","a","h">> @@
    "not" :> <<"n","o","t">> @@
    "nahin" :> <<"n","a","h","i","n">> @@
    "nahi" :> <<"n","a","h","i">> @@
    "no way" :> <<"n","o"," ","w","a","y">> @@
    "not really" :> <<"n","o","t"," ","r","e","a","l","l","y">> @@
    "negative" :> <<"n","e","g","a","t","i","v","e">> @@
    "salaried" :> <<"s","a","l","a","r","i","e","d">> @@
    "employed" :> <<"e","m","p","l","o","y","e","d">> @@
    "job" :> <<"j","o","b">> @@
    "work" :> <<"w","o","r","k">> @@
    "salary" :> <<"s","a","l","a","r","y">> @@
    "company" :> <<"c","o","m","p","a","n","y">> @@
    "working" :> <<"w","o","r","k","i","n","g">> @@
    "employee" :> <<"e","m","p","l","o","y","e","e">> @@
    "office" :> <<"o","f","f","i","c","e">> @@
    "corporate" :> <<"c","o","r","p","o","r","a","t","e">> @@
    "mnc" :> <<"m","n","c">> @@
    "private sector" :> <<"p","r","i","v","a","t","e"," ","s","e","c","t","o","r">> @@
    "government" :> <<"g","o","v","e","r","n","m","e","n","t">> @@
    "govt" :> <<"g","o","v","t">> @@
    "self-employed" :> <<"s","e","l","f","-","e","m","p","l","o","y","e","d">> @@
    "self employed" :> <<"s","e","l","f"," ","e","m","p","l","o","y","e","d">> @@
    "business" :> <<"b","u","s","i","n","e","s","s">> @@
    "freelance" :> <<"f","r","e","e","l","a","n","c","e">> @@
    "freelancer" :> <<"f","r","e","e","l","a","n","c","e","r">> @@
    "entrepreneur" :> <<"e","n","t","r","e","p","r","e","n","e","u","r">> @@
    "own business" :> <<"o","w","n"," ","b","u","s","i","n","e","s","s">> @@
    "startup" :> <<"s","t","a","r","t","u","p">> @@
    "contract" :> <<"c","o","n","t","r","a","c","t">> @@
    "consultant" :> <<"c","o","n","s","u","l","t","a","n","t">> @@
    "unemployed" :> <<"u","n","e","m","p","l","o","y","e","d">> @@
    "retired" :> <<"r","e","t","i","r","e","d">> @@
    "student" :> <<"s","t","u","d","e","n","t">> @@
    "housewife" :> <<"h","o","u","s","e","w","i","f","e">> @@
    "homemaker" :> <<"h","o","m","e","m","a","k","e","r">> @@
    "zero" :> <<"z","e","r","o">> @@
    "one" :> <<"o","n","e">> @@
    "two" :> <<"t","w","o">> @@
    "three" :> <<"t","h","r","e","e">> @@
    "four" :> <<"f","o","u","r">> @@
    "five" :> <<"f","i","v","e">> @@
    "six" :> <<"s","i","x">> @@
    "seven" :> <<"s","e","v","e","n">> @@
    "eight" :> <<"e","i","g","h","t">> @@
    "nine" :> <<"n","i","n","e">> @@
    "ten" :> <<"t","e","n">> @@
    "eleven" :> <<"e","l","e","v","e","n">> @@
    "twelve" :> <<"t","w","e","l","v","e">> @@
    "thirteen" :> <<"t","h","i","r","t","e","e","n">> @@
    "fourteen" :> <<"f","o","u","r","t","e","e","n">> @@
    "fifteen" :> <<"f","i","f","t","e","e","n">> @@
    "sixteen" :> <<"s","i","x","t","e","e","n">> @@
    "seventeen" :> <<"s","e","v","e","n","t","e","e","n">> @@
    "eighteen" :> <<"e","i","g","h","t","e","e","n">> @@
    "nineteen" :> <<"n","i","n","e","t","e","e","n">> @@
    "twenty" :> <<"t","w","e","n","t","y">> @@
    "thirty" :> <<"t","h","i","r","t","y">> @@
    "forty" :> <<"f","o","r","t","y">> @@
    "fifty" :> <<"f","i","f","t","y">> @@
    "sixty" :> <<"s","i","x","t","y">> @@
    "seventy" :> <<"s","e","v","e","n","t","y">> @@
    "eighty" :> <<"e","i","g","h","t","y">> @@
    "ninety" :> <<"n","i","n","e","t","y">> @@
    "hundred" :> <<"h","u","n","d","r","e","d">> @@
    "thousand" :> <<"t","h","o","u","s","a","n","d">> @@
    "lakh" :> <<"l","a","k","h">> @@
    "lac" :> <<"l","a","c">> @@
    "lakhs" :> <<"l","a","k","h","s">> @@
    "delhi" :> <<"d","e","l","h","i">> @@
    "mumbai" :> <<"m","u","m","b","a","i">> @@
    "bangalore" :> <<"b","a","n","g","a","l","o","r","e">> @@
    "new delhi" :> <<"n","e","w"," ","d","e","l","h","i">> @@
    "ncr" :> <<"n","c","r">> @@
    "delhi ncr" :> <<"d","e","l","h","i"," ","n","c","r">> @@
    "noida" :> <<"n","o","i","d","a">> @@
    "gurgaon" :> <<"g","u","r","g","a","o","n">> @@
    "gurugram" :> <<"g","u","r","u","g","r","a","m">> @@
    "faridabad" :> <<"f","a","r","i","d","a","b","a","d">> @@
    "ghaziabad" :> <<"g","h","a","z","i","a","b","a","d">> @@
    "bombay" :> <<"b","o","m","b","a","y">> @@
    "navi mumbai" :> <<"n","a","v","i"," ","m","u","m","b","a","i">> @@
    "thane" :> <<"t","h","a","n","e">> @@
    "bengaluru" :> <<"b","e","n","g","a","l","u","r","u">> @@
    "blr" :> <<"b","l","r">> @@
    "bangaluru" :> <<"b","a","n","g","a","l","u","r","u">> @@
    "thirty five thousand rupees" :> <<"t","h","i","r","t","y"," ","f","i","v","e"," ","t","h","o","u","s","a","n","d"," ","r","u","p","e","e","s">> @@
    "twenty thousand" :> <<"t","w","e","n","t","y"," ","t","h","o","u","s","a","n","d">> @@
    "Mumbai" :> <<"M","u","m","b","a","i">> @@
    "Pune" :> <<"P","u","n","e">> @@
    "twenty five thousand" :> <<"t","w","e","n","t","y"," ","f","i","v","e"," ","t","h","o","u","s","a","n","d">>

UpperToLower ==
    "A" :> "a" @@ "B" :> "b" @@ "C" :> "c" @@ "D" :> "d" @@ "E" :> "e" @@ "F" :> "f" @@ "G" :> "g" @@ "H" :> "h" @@ "I" :> "i" @@ "J" :> "j" @@ "K" :> "k" @@ "L" :> "l" @@ "M" :> "m" @@ "N" :> "n" @@ "O" :> "o" @@ "P" :> "p" @@ "Q" :> "q" @@ "R" :> "r" @@ "S" :> "s" @@ "T" :> "t" @@ "U" :> "u" @@ "V" :> "v" @@ "W" :> "w" @@ "X" :> "x" @@ "Y" :> "y" @@ "Z" :> "z"

DigitValue ==
    "0" :> 0 @@ "1" :> 1 @@ "2" :> 2 @@ "3" :> 3 @@ "4" :> 4 @@ "5" :> 5 @@ "6" :> 6 @@ "7" :> 7 @@ "8" :> 8 @@ "9" :> 9

\* String.prototype.toLowerCase
toLowerCase(cs) ==
    [i \in 1..Len(cs) |-> IF cs[i] \in DOMAIN UpperToLower THEN UpperToLower[cs[i]] ELSE cs[i]]

RECURSIVE trimStart(_)
trimStart(cs) ==
    IF cs # <<>> /\ Head(cs) = " " THEN trimStart(Tail(cs)) ELSE cs

RECURSIVE trimEnd(_)
trimEnd(cs) ==
    IF cs # <<>> /\ cs[Len(cs)] = " " THEN trimEnd(SubSeq(cs, 1, Len(cs) - 1)) ELSE cs

\* String.prototype.trim
trim(cs) == trimEnd(trimStart(cs))

\* transcript.toLowerCase().trim()
normalize(transcript) == trim(toLowerCase(CharsOf[transcript]))

\* String.prototype.includes
includes(text, kw) ==
    \E i \in 1..(Len(text) - Len(kw) + 1) : SubSeq(text, i, i + Len(kw) - 1) = kw

\* text.split(/[\s,]+/): the pieces between maximal runs of separators, an
\* empty piece before a leading run and after a trailing one.
RECURSIVE splitFrom(_, _, _, _)
splitFrom(cs, i, cur, prevSep) ==
    IF i > Len(cs) THEN <<cur>>
    ELSE IF cs[i] \in {" ", ","}
         THEN IF prevSep THEN splitFrom(cs, i + 1, cur, TRUE)
              ELSE <<cur>> \o splitFrom(cs, i + 1, <<>>, TRUE)
         ELSE splitFrom(cs, i + 1, Append(cur, cs[i]), FALSE)

split(cs) == splitFrom(cs, 1, <<>>, FALSE)

Min2(a, b) == IF a < b THEN a ELSE b

\* One row of the edit-distance table: row[j+1] is the distance between the
\* first i characters of a and the first j characters of b.
RECURSIVE levRow(_, _, _, _, _)
levRow(a, b, i, prev, acc) ==
    IF Len(acc) = Len(b) + 1 THEN acc
    ELSE LET j == Len(acc)
             cost == IF a[i] = b[j] THEN 0 ELSE 1
             d == Min2(Min2(prev[j + 1] + 1, acc[j] + 1), prev[j] + cost)
         IN levRow(a, b, i, prev, Append(acc, d))

RECURSIVE levFrom(_, _, _, _)
levFrom(a, b, i, prev) ==
    IF i > Len(a) THEN prev[Len(b) + 1]
    ELSE levFrom(a, b, i + 1, levRow(a, b, i, prev, <<i>>))

\* distance() of fastest-levenshtein: the Levenshtein edit distance
levenshtein(a, b) == levFrom(a, b, 1, [j \in 1..(Len(b) + 1) |-> j - 1])

\* ------------------------------------------------------------------------
\* Validators (engine/validators.ts)
\* ------------------------------------------------------------------------
YES_PATTERN ==
    {"yes", "yeah", "yep", "yup", "correct", "right", "haan", "ha", "ji", "ji haan",
     "sure", "absolutely", "definitely", "of course", "that's right"}

NO_PATTERN ==
    {"no", "nope", "nah", "not", "nahin", "nahi", "no way", "not really", "negative"}

SALARIED_KEYWORDS ==
    {"salaried", "employed", "job", "work", "salary", "company", "working", "employee",
     "office", "corporate", "mnc", "private sector", "government", "govt"}

NON_SALARIED_KEYWORDS ==
    {"self-employed", "self employed", "business", "freelance", "freelancer",
     "entrepreneur", "own business", "startup", "contract", "consultant",
     "unemployed", "retired", "student", "housewife", "homemaker"}

\* /^(a|b|...)$/i.test(normalized): the whole text is one of the alternatives
testWhole(pattern, normalized) == \E w \in pattern : CharsOf[w] = normalized

\* EmploymentValidator.validate: Some(TRUE), Some(FALSE) or NULL (ambiguous)
EmploymentValidator_validate(transcript) ==
    LET normalized == normalize(transcript)
        hasSalaried == \E kw \in SALARIED_KEYWORDS : includes(normalized, CharsOf[kw])
        hasNonSalaried == \E kw \in NON_SALARIED_KEYWORDS : includes(normalized, CharsOf[kw])
    IN  IF testWhole(YES_PATTERN, normalized) THEN Some(TRUE)
        ELSE IF testWhole(NO_PATTERN, normalized) THEN Some(FALSE)
        ELSE IF hasSalaried /\ ~hasNonSalaried THEN Some(TRUE)
        ELSE IF hasNonSalaried /\ ~hasSalaried THEN Some(FALSE)
        ELSE NULL

WORD_TO_NUMBER ==
    [zero |-> 0, one |-> 1, two |-> 2, three |-> 3, four |-> 4, five |-> 5,
     six |-> 6, seven |-> 7, eight |-> 8, nine |-> 9, ten |-> 10,
     eleven |-> 11, twelve |-> 12, thirteen |-> 13, fourteen |-> 14, fifteen |-> 15,
     sixteen |-> 16, seventeen |-> 17, eighteen |-> 18, nineteen |-> 19,
     twenty |-> 20, thirty |-> 30, forty |-> 40, fifty |-> 50,
     sixty |-> 60, seventy |-> 70, eighty |-> 80, ninety |-> 90,
     hundred |-> 100, thousand |-> 1000, lakh |-> 100000, lac |-> 100000, lakhs |-> 100000]

SALARY_MIN == 1000
SALARY_MAX == 10000000
SALARY_THRESHOLD == 25000

inSalaryRange(num) == num >= SALARY_MIN /\ num <= SALARY_MAX

isDigit(c) == c \in DOMAIN DigitValue

hasDigit(text) == \E i \in 1..Len(text) : isDigit(text[i])

\* parseInt(digits, 10) of a non-empty run of decimal digits
RECURSIVE parseInt(_)
parseInt(ds) ==
    IF ds = <<>> THEN 0 ELSE 10 * parseInt(SubSeq(ds, 1, Len(ds) - 1)) + DigitValue[ds[Len(ds)]]

\* the longest run of at most max digits of text that starts at position i
RECURSIVE digitRun(_, _, _)
digitRun(text, i, max) ==
    IF max = 0 \/ i > Len(text) \/ ~isDigit(text[i]) THEN <<>>
    ELSE <<text[i]>> \o digitRun(text, i + 1, max - 1)

\* (?:,\d{3})* from position i: the digits of the groups matched, commas dropped
RECURSIVE commaGroups(_, _)
commaGroups(text, i) ==
    IF i <= Len(text) /\ text[i] = "," /\ Len(digitRun(text, i + 1, 3)) = 3
    THEN digitRun(text, i + 1, 3) \o commaGroups(text, i + 4)
    ELSE <<>>

\* SalaryParser.extractDirect: /R?\s*(\d{1,3}(?:,\d{3})*|\d{4,7})/ (R the rupee
\* sign, optional) matches leftmost,
\* so its group starts at the first digit of the text; the first alternative
\* succeeds there (one to three digits, then any ",ddd" groups) and the second
\* is never tried.
extractDirect(text) ==
    IF ~hasDigit(text) THEN NULL
    ELSE LET first == CHOOSE i \in 1..Len(text) :
                          isDigit(text[i]) /\ \A k \in 1..(i - 1) : ~isDigit(text[k])
             lead == digitRun(text, first, 3)
             num == parseInt(lead \o commaGroups(text, first + Len(lead)))
         IN  IF inSalaryRange(num) THEN Some(num) ELSE NULL

\* SalaryParser.extractKShorthand, extractLakhShorthand and extractContextual:
\* each pattern needs a digit (\d+), so a text without digits gives null.  The
\* transcripts of this model that reach these strategies hold no digit; for a
\* text with digits the operators are not defined.
digitPatternOnly(text) == IF hasDigit(text) THEN CHOOSE v \in {} : TRUE ELSE NULL

extractKShorthand(text) == digitPatternOnly(text)

extractLakhShorthand(text) == digitPatternOnly(text)

extractContextual(text) == digitPatternOnly(text)

\* the loop of extractWordToNumber over words[k..]: <<total, current, hasNumericWord>>
RECURSIVE wordLoop(_, _, _, _, _)
wordLoop(words, k, total, current, hasNumericWord) ==
    IF k > Len(words) THEN <<total, current, hasNumericWord>>
    ELSE IF ~(\E name \in DOMAIN WORD_TO_NUMBER : CharsOf[name] = words[k])
         THEN wordLoop(words, k + 1, total, current, hasNumericWord)
         ELSE LET name == CHOOSE n \in DOMAIN WORD_TO_NUMBER : CharsOf[n] = words[k]
                  value == WORD_TO_NUMBER[name]
                  base == IF current = 0 THEN 1 ELSE current
              IN  IF value = 100
                  THEN wordLoop(words, k + 1, total, base * 100, TRUE)
                  ELSE IF value >= 1000
                  THEN wordLoop(words, k + 1, total + base * value, 0, TRUE)
                  ELSE wordLoop(words, k + 1, total, current + value, TRUE)

\* SalaryParser.extractWordToNumber
extractWordToNumber(text) ==
    LET r == wordLoop(split(text), 1, 0, 0, FALSE)
        total == r[1] + r[2]
    IN  IF ~r[3] \/ total = 0 THEN NULL
        ELSE IF inSalaryRange(total) THEN Some(total)
        ELSE NULL

\* SalaryParser.parse: the strategies in priority order
SalaryParser_parse(transcript) ==
    LET normalized == normalize(transcript)
    IN  IF extractDirect(normalized) # NULL THEN extractDirect(normalized)
        ELSE IF extractKShorthand(normalized) # NULL THEN extractKShorthand(normalized)
        ELSE IF extractLakhShorthand(normalized) # NULL THEN extractLakhShorthand(normalized)
        ELSE IF extractWordToNumber(normalized) # NULL THEN extractWordToNumber(normalized)
        ELSE extractContextual(normalized)

\* SalaryParser.parseDTMF: digits is the sequence of keys pressed
SalaryParser_parseDTMF(digits) ==
    LET cleaned == SelectSeq(digits, isDigit)
    IN  IF Len(cleaned) = 0 THEN NULL
        ELSE IF inSalaryRange(parseInt(cleaned)) THEN Some(parseInt(cleaned))
        ELSE NULL

METRO_CITIES == <<"delhi", "mumbai", "bangalore">>

\* Object.entries(CITY_ALIASES), in insertion order
CITY_ALIASES ==
    << <<"new delhi", "delhi">>, <<"ncr", "delhi">>, <<"delhi ncr", "delhi">>,
       <<"noida", "delhi">>, <<"gurgaon", "delhi">>, <<"gurugram", "delhi">>,
       <<"faridabad", "delhi">>, <<"ghaziabad", "delhi">>,
       <<"bombay", "mumbai">>, <<"navi mumbai", "mumbai">>, <<"thane", "mumbai">>,
       <<"bengaluru", "bangalore">>, <<"blr", "bangalore">>, <<"bangaluru", "bangalore">> >>

MAX_FUZZY_DISTANCE == 2

\* the first element of seq that satisfies Test, as an index (0 when none)
firstIndex(seq, Test(_)) ==
    IF \E i \in 1..Len(seq) : Test(seq[i])
    THEN CHOOSE i \in 1..Len(seq) : Test(seq[i]) /\ \A k \in 1..(i - 1) : ~Test(seq[k])
    ELSE 0

\* the fuzzy match of one word: metro cities first, then one-word aliases
fuzzyWord(word) ==
    LET nearCity(city) == levenshtein(word, CharsOf[city]) <= MAX_FUZZY_DISTANCE
        nearAlias(entry) == ~includes(CharsOf[entry[1]], <<" ">>)
                            /\ levenshtein(word, CharsOf[entry[1]]) <= MAX_FUZZY_DISTANCE
        c == firstIndex(METRO_CITIES, nearCity)
        a == firstIndex(CITY_ALIASES, nearAlias)
    IN  IF Len(word) < 3 THEN NULL
        ELSE IF c # 0 THEN Some(METRO_CITIES[c])
        ELSE IF a # 0 THEN Some(CITY_ALIASES[a][2])
        ELSE NULL

\* LocationMatcher.match
LocationMatcher_match(transcript) ==
    LET normalized == normalize(transcript)
        inText(city) == includes(normalized, CharsOf[city])
        aliasInText(entry) == includes(normalized, CharsOf[entry[1]])
        words == split(normalized)
        fuzzy(word) == fuzzyWord(word) # NULL
        c == firstIndex(METRO_CITIES, inText)
        a == firstIndex(CITY_ALIASES, aliasInText)
        w == firstIndex(words, fuzzy)
    IN  IF c # 0 THEN Some(METRO_CITIES[c])
        ELSE IF a # 0 THEN Some(CITY_ALIASES[a][2])
        ELSE IF w # 0 THEN fuzzyWord(words[w])
        ELSE NULL

\* LocationMatcher.isEligible
LocationMatcher_isEligible(location) ==
    \E i \in 1..Len(METRO_CITIES) : CharsOf[METRO_CITIES[i]] = toLowerCase(CharsOf[location])

\* ------------------------------------------------------------------------
\* Inputs of the environment
\* ------------------------------------------------------------------------
\* the final and interim transcripts the recognition channel may deliver
Utterances ==
    {"yes", "no", "thirty five thousand rupees", "twenty thousand", "twenty five thousand",
     "Mumbai", "Pune"}

\* confidences, in hundredths
LOW_CONFIDENCE == 70
BARGE_IN_CONFIDENCE == 50
FinalConfidences == {69, 70, 95}
InterimConfidences == {50, 51, 90}

\* keypad keys
DtmfKeys == {"0", "1", "2", "3", "5", "#"}

\* the validators over the transcripts of the model (pure functions, computed once)
employmentOf == [t \in Utterances |-> EmploymentValidator_validate(t)]
salaryOf == [t \in Utterances |-> SalaryParser_parse(t)]
locationOf == [t \in Utterances |-> LocationMatcher_match(t)]

\* ------------------------------------------------------------------------
\* ConversationStateMachine (engine/validators.ts, second half)
\*
\* Every method is an operator from the context (and the arguments) to the
\* context it leaves, with the StateMachineResult it returns:
\* [ctx, threw |-> FALSE, result |-> [response, shouldEnd, newState]], or
\* [ctx, threw |-> TRUE] when it throws EngineError.  A response is the
\* sequence of the prompt constants it is built from; <<>> is ''.
\* ------------------------------------------------------------------------
MAX_CLARIFICATION_ATTEMPTS == 2

ConversationState ==
    {"GREETING", "ASK_EMPLOYMENT", "ASK_SALARY", "ASK_LOCATION", "CLARIFICATION",
     "DTMF_FALLBACK", "ELIGIBLE_CONFIRMATION", "REJECTION", "ENDED"}

\* the context set up by the constructor
initialContext ==
    [currentState |-> "GREETING",
     previousState |-> NULL,
     eligibility |-> [isSalaried |-> NULL, salary |-> NULL, location |-> NULL],
     turnCount |-> 0,
     clarificationAttempts |-> 0,
     transcript |-> <<>>,
     isBotSpeaking |-> FALSE,
     rejectionReason |-> NULL]

returns(ctx, response, shouldEnd, newState) ==
    [ctx |-> ctx, threw |-> FALSE,
     result |-> [response |-> response, shouldEnd |-> shouldEnd, newState |-> newState]]

\* generateAcknowledgement: one of the five phrases (chosen at random) every
\* third turn, '' otherwise
generateAcknowledgement(turnCount) ==
    IF turnCount > 0 /\ turnCount % 3 = 0 THEN <<"ACKNOWLEDGEMENT">> ELSE <<>>

\* addTranscriptTurn putting the turn in front: unshift where the code has push
addTranscriptTurn_unshift(ctx, turn) == [ctx EXCEPT !.transcript = <<turn>> \o @]

addTranscriptTurn(ctx, turn) == [ctx EXCEPT !.transcript = Append(@, turn)]

setBotSpeaking(ctx, speaking) == [ctx EXCEPT !.isBotSpeaking = speaking]

startConversation(ctx) ==
    LET c == [ctx EXCEPT !.currentState = "ASK_EMPLOYMENT"]
    IN  returns(c, <<"GREETING_MESSAGE">>, FALSE, c.currentState)

rejectCall(ctx, reason) ==
    LET c == [ctx EXCEPT !.currentState = "REJECTION", !.rejectionReason = Some(reason)]
    IN  returns(c, <<"REJECTION_MESSAGES", reason>>, TRUE, c.currentState)

\* askClarification giving up one attempt early: >= where the code has >
askClarification_early(ctx, questionState, clarificationPrompt, dtmfFallbackPrompt) ==
    LET c1 == [ctx EXCEPT !.clarificationAttempts = @ + 1,
                          !.previousState = Some(questionState)]
    IN  IF c1.clarificationAttempts >= MAX_CLARIFICATION_ATTEMPTS
        THEN returns([c1 EXCEPT !.currentState = "DTMF_FALLBACK"],
                     <<dtmfFallbackPrompt>>, FALSE, "DTMF_FALLBACK")
        ELSE returns([c1 EXCEPT !.currentState = "CLARIFICATION"],
                     <<clarificationPrompt>>, FALSE, "CLARIFICATION")

askClarification(ctx, questionState, clarificationPrompt, dtmfFallbackPrompt) ==
    LET c1 == [ctx EXCEPT !.clarificationAttempts = @ + 1]
    IN  IF c1.clarificationAttempts > MAX_CLARIFICATION_ATTEMPTS
        THEN LET c2 == [c1 EXCEPT !.previousState = Some(questionState),
                                  !.currentState = "DTMF_FALLBACK"]
             IN  returns(c2, <<dtmfFallbackPrompt>>, FALSE, c2.currentState)
        ELSE LET c2 == [c1 EXCEPT !.previousState = Some(questionState),
                                  !.currentState = "CLARIFICATION"]
             IN  returns(c2, <<clarificationPrompt>>, FALSE, c2.currentState)

\* handleEmploymentResponse without the reset of clarificationAttempts
handleEmploymentResponse_noReset(ctx, transcript) ==
    LET isSalaried == employmentOf[transcript]
        c1 == [ctx EXCEPT !.eligibility.isSalaried = isSalaried]
    IN  IF isSalaried = NULL
        THEN askClarification(c1, "ASK_EMPLOYMENT", "EMPLOYMENT_CLARIFICATION",
                              "EMPLOYMENT_DTMF_FALLBACK")
        ELSE IF ~isSalaried[1]
        THEN rejectCall(c1, "employment")
        ELSE returns([c1 EXCEPT !.currentState = "ASK_SALARY"],
                     generateAcknowledgement(c1.turnCount) \o <<"ASK_SALARY_MESSAGE">>,
                     FALSE, "ASK_SALARY")

handleEmploymentResponse(ctx, transcript) ==
    LET isSalaried == employmentOf[transcript]
        c1 == [ctx EXCEPT !.eligibility.isSalaried = isSalaried]
    IN  IF isSalaried = NULL
        THEN askClarification(c1, "ASK_EMPLOYMENT", "EMPLOYMENT_CLARIFICATION",
                              "EMPLOYMENT_DTMF_FALLBACK")
        ELSE IF ~isSalaried[1]
        THEN rejectCall(c1, "employment")
        ELSE LET c2 == [c1 EXCEPT !.currentState = "ASK_SALARY",
                                  !.clarificationAttempts = 0]
             IN  returns(c2, generateAcknowledgement(c2.turnCount) \o <<"ASK_SALARY_MESSAGE">>,
                         FALSE, c2.currentState)

\* handleSalaryResponse rejecting the threshold itself: <= where the code has <
handleSalaryResponse_inclusive(ctx, transcript) ==
    LET salary == salaryOf[transcript]
        c1 == [ctx EXCEPT !.eligibility.salary = salary]
    IN  IF salary = NULL
        THEN askClarification(c1, "ASK_SALARY", "SALARY_CLARIFICATION", "SALARY_DTMF_FALLBACK")
        ELSE IF salary[1] <= SALARY_THRESHOLD
        THEN rejectCall(c1, "salary")
        ELSE returns([c1 EXCEPT !.currentState = "ASK_LOCATION",
                                !.clarificationAttempts = 0],
                     generateAcknowledgement(c1.turnCount) \o <<"ASK_LOCATION_MESSAGE">>,
                     FALSE, "ASK_LOCATION")

handleSalaryResponse(ctx, transcript) ==
    LET salary == salaryOf[transcript]
        c1 == [ctx EXCEPT !.eligibility.salary = salary]
    IN  IF salary = NULL
        THEN askClarification(c1, "ASK_SALARY", "SALARY_CLARIFICATION", "SALARY_DTMF_FALLBACK")
        ELSE IF salary[1] < SALARY_THRESHOLD
        THEN rejectCall(c1, "salary")
        ELSE LET c2 == [c1 EXCEPT !.currentState = "ASK_LOCATION",
                                  !.clarificationAttempts = 0]
             IN  returns(c2, generateAcknowledgement(c2.turnCount) \o <<"ASK_LOCATION_MESSAGE">>,
                         FALSE, c2.currentState)

\* handleLocationResponse that stores the city without confirming eligibility:
\* the state is left at the location question and the call goes on
handleLocationResponse_noVerdict(ctx, transcript) ==
    LET location == locationOf[transcript]
        c1 == [ctx EXCEPT !.eligibility.location = location]
    IN  IF location = NULL
        THEN askClarification(c1, "ASK_LOCATION", "LOCATION_CLARIFICATION",
                              "LOCATION_CLARIFICATION")
        ELSE returns(c1, <<"ELIGIBLE_MESSAGE">>, FALSE, c1.currentState)

handleLocationResponse(ctx, transcript) ==
    LET location == locationOf[transcript]
        c1 == [ctx EXCEPT !.eligibility.location = location]
    IN  IF location = NULL
        THEN LET c2 == [c1 EXCEPT !.clarificationAttempts = @ + 1]
             IN  IF c2.clarificationAttempts > MAX_CLARIFICATION_ATTEMPTS
                 THEN rejectCall(c2, "location_unclear")
                 ELSE LET c3 == [c2 EXCEPT !.currentState = "CLARIFICATION",
                                           !.previousState = Some("ASK_LOCATION")]
                      IN  returns(c3, <<"LOCATION_CLARIFICATION">>, FALSE, c3.currentState)
        ELSE IF ~LocationMatcher_isEligible(location[1])
        THEN rejectCall(c1, "location")
        ELSE LET c2 == [c1 EXCEPT !.currentState = "ELIGIBLE_CONFIRMATION"]
             IN  returns(c2, <<"ELIGIBLE_MESSAGE">>, TRUE, c2.currentState)

handleClarificationResponse(ctx, transcript) ==
    IF ctx.previousState = Some("ASK_EMPLOYMENT")
    THEN handleEmploymentResponse([ctx EXCEPT !.currentState = "ASK_EMPLOYMENT"], transcript)
    ELSE IF ctx.previousState = Some("ASK_SALARY")
    THEN handleSalaryResponse([ctx EXCEPT !.currentState = "ASK_SALARY"], transcript)
    ELSE IF ctx.previousState = Some("ASK_LOCATION")
    THEN handleLocationResponse([ctx EXCEPT !.currentState = "ASK_LOCATION"], transcript)
    ELSE returns(ctx, <<"UNEXPECTED_ERROR_MESSAGE">>, TRUE, "ENDED")

\* handleLowConfidence allowing one attempt more before the keypad
handleLowConfidence_late(ctx) ==
    LET c1 == [ctx EXCEPT !.clarificationAttempts = @ + 1]
    IN  IF c1.clarificationAttempts > MAX_CLARIFICATION_ATTEMPTS + 1
        THEN returns([c1 EXCEPT !.previousState = Some(c1.currentState),
                                !.currentState = "DTMF_FALLBACK"],
                     <<"SORRY_COULD_NOT_UNDERSTAND">>, FALSE, "DTMF_FALLBACK")
        ELSE returns(c1, <<"SORRY_DID_NOT_CATCH">>, FALSE, c1.currentState)

handleLowConfidence(ctx) ==
    LET c1 == [ctx EXCEPT !.clarificationAttempts = @ + 1]
    IN  IF c1.clarificationAttempts > MAX_CLARIFICATION_ATTEMPTS
        THEN LET c2 == [c1 EXCEPT !.previousState = Some(c1.currentState),
                                  !.currentState = "DTMF_FALLBACK"]
             IN  IF c2.previousState = Some("ASK_EMPLOYMENT")
                 THEN returns(c2, <<"EMPLOYMENT_DTMF_FALLBACK">>, FALSE, c2.currentState)
                 ELSE IF c2.previousState = Some("ASK_SALARY")
                 THEN returns(c2, <<"SALARY_DTMF_FALLBACK">>, FALSE, c2.currentState)
                 ELSE returns(c2, <<"SORRY_COULD_NOT_UNDERSTAND">>, FALSE, c2.currentState)
        ELSE returns(c1, <<"SORRY_DID_NOT_CATCH">>, FALSE, c1.currentState)

handleUserInput(ctx, transcript, confidence) ==
    LET c1 == [ctx EXCEPT !.turnCount = @ + 1]
    IN  IF confidence < LOW_CONFIDENCE /\ c1.currentState # "DTMF_FALLBACK"
        THEN handleLowConfidence(c1)
        ELSE CASE c1.currentState = "ASK_EMPLOYMENT" -> handleEmploymentResponse(c1, transcript)
               [] c1.currentState = "ASK_SALARY" -> handleSalaryResponse(c1, transcript)
               [] c1.currentState = "ASK_LOCATION" -> handleLocationResponse(c1, transcript)
               [] c1.currentState = "CLARIFICATION" -> handleClarificationResponse(c1, transcript)
               [] c1.currentState = "DTMF_FALLBACK" -> handleClarificationResponse(c1, transcript)
               [] c1.currentState \in {"ELIGIBLE_CONFIRMATION", "REJECTION", "ENDED"} ->
                      returns(c1, <<>>, TRUE, "ENDED")
               [] OTHER -> [ctx |-> c1, threw |-> TRUE]

\* handleDTMFInput taking every key other than 1 as the answer 2
handleDTMFInput_anyKey(ctx, digit) ==
    IF ctx.previousState = Some("ASK_EMPLOYMENT")
    THEN IF digit = <<"1">>
         THEN LET c == [ctx EXCEPT !.eligibility.isSalaried = Some(TRUE),
                                   !.currentState = "ASK_SALARY",
                                   !.clarificationAttempts = 0]
              IN  returns(c, generateAcknowledgement(c.turnCount) \o <<"ASK_SALARY_MESSAGE">>,
                          FALSE, c.currentState)
         ELSE rejectCall([ctx EXCEPT !.eligibility.isSalaried = Some(FALSE)], "employment")
    ELSE returns(ctx, <<>>, FALSE, ctx.currentState)

\* digit is the string passed by the session: one key, or the buffered keys
handleDTMFInput(ctx, digit) ==
    IF ctx.previousState = Some("ASK_EMPLOYMENT")
    THEN IF digit = <<"1">>
         THEN LET c == [ctx EXCEPT !.eligibility.isSalaried = Some(TRUE),
                                   !.currentState = "ASK_SALARY",
                                   !.clarificationAttempts = 0]
              IN  returns(c, generateAcknowledgement(c.turnCount) \o <<"ASK_SALARY_MESSAGE">>,
                          FALSE, c.currentState)
         ELSE IF digit = <<"2">>
         THEN rejectCall([ctx EXCEPT !.eligibility.isSalaried = Some(FALSE)], "employment")
         ELSE returns(ctx, <<"EMPLOYMENT_DTMF_FALLBACK">>, FALSE, "DTMF_FALLBACK")
    ELSE IF ctx.previousState = Some("ASK_SALARY")
    THEN LET salary == SalaryParser_parseDTMF(digit)
         IN  IF salary # NULL
             THEN LET c1 == [ctx EXCEPT !.eligibility.salary = salary]
                  IN  IF salary[1] < SALARY_THRESHOLD
                      THEN rejectCall(c1, "salary")
                      ELSE LET c2 == [c1 EXCEPT !.currentState = "ASK_LOCATION",
                                                !.clarificationAttempts = 0]
                           IN  returns(c2, generateAcknowledgement(c2.turnCount)
                                             \o <<"ASK_LOCATION_MESSAGE">>,
                                       FALSE, c2.currentState)
             ELSE returns(ctx, <<"SALARY_DTMF_FALLBACK">>, FALSE, "DTMF_FALLBACK")
    ELSE returns(ctx, <<>>, FALSE, ctx.currentState)

\* ------------------------------------------------------------------------
\* The program state.  context is the ConversationContext of the state
\* machine; session the fields of CallSession with its pending grace
\* timers; tts and stt the two clients with the sockets they opened;
\* metrics the MetricsCollector; effects the calls made on collaborators;
\* server the route's socket and registry entry; lastCall the most recent
\* evaluation of the state machine, none yet being NULL.
\*
\* A handler is an operator from the program state p (a record of the
\* eight variables) to the program state it leaves; an action applies one
\* handler to the current state.
\* ------------------------------------------------------------------------
VARIABLES context, session, tts, stt, metrics, effects, server, lastCall

vars == <<context, session, tts, stt, metrics, effects, server, lastCall>>

Now ==
    [context |-> context, session |-> session, tts |-> tts, stt |-> stt,
     metrics |-> metrics, effects |-> effects, server |-> server, lastCall |-> lastCall]

\* ---- bounds of the exploration
MaxTurns == 3
MaxDtmf == 2
MaxCalls == 1
MaxFaultTurns == 1
MaxMachineTurns == 7
MaxOverlapTurns == 2
MaxSttErrors == 7

\* ---- MetricsCollector
recordTurnLatency(p) == [p EXCEPT !.metrics.turnsTotal = @ + 1]

recordCallComplete(p, status) == [p EXCEPT !.metrics.callsTotal[status] = @ + 1]

recordBargeIn(p) == [p EXCEPT !.metrics.bargeInsTotal = @ + 1]

recordDtmfFallback(p) == [p EXCEPT !.metrics.dtmfFallbacksTotal = @ + 1]

recordError(p, domain) == [p EXCEPT !.metrics.errorsTotal[domain] = @ + 1]

callStarted(m) == [m EXCEPT !.activeCalls = @ + 1]

callEnded(p) == [p EXCEPT !.metrics.activeCalls = @ - 1]

newMetrics ==
    [activeCalls |-> 0,
     callsTotal |-> [eligible |-> 0, rejected |-> 0, abandoned |-> 0],
     bargeInsTotal |-> 0, turnsTotal |-> 0, dtmfFallbacksTotal |-> 0,
     errorsTotal |-> [stt |-> 0, tts |-> 0, engine |-> 0]]

\* ---- an evaluation of the state machine: the context before the call,
\* the arguments, and what the call returned (NULL when it threw)
DialogueOf(ctx) ==
    [currentState |-> ctx.currentState, previousState |-> ctx.previousState,
     eligibility |-> ctx.eligibility, turnCount |-> ctx.turnCount,
     clarificationAttempts |-> ctx.clarificationAttempts,
     rejectionReason |-> ctx.rejectionReason]

logCall(p, op, transcript, confidence, digit, o) ==
    [p EXCEPT !.context = o.ctx,
              !.lastCall = Some([op |-> op, pre |-> DialogueOf(p.context),
                                 transcript |-> transcript, confidence |-> confidence,
                                 digit |-> digit,
                                 result |-> IF o.threw THEN NULL ELSE Some(o.result)])]

\* the sockets and connections a client opened, none of them the current one
RECURSIVE notCurrent(_)
notCurrent(socks) ==
    IF socks = <<>> THEN <<>>
    ELSE <<[Head(socks) EXCEPT !.cur = FALSE]>> \o notCurrent(Tail(socks))

\* ---- ElevenLabsTTSClient.  calls holds one record for each socket opened
\* by synthesize that is not yet closed or whose promise is not yet settled:
\* ws its readyState ("aborted": closed by the client while connecting),
\* cur whether this.ws is that socket, timer whether the 10 s connect
\* timeout is armed, pending whether the promise is unsettled, awaiter the
\* code awaiting speak.
newTTSClient == [isSynthesizing |-> FALSE, listening |-> TRUE, calls |-> <<>>]

\* the socket this.ws, when it is connecting or open, is closed; this.ws = null
closeSocket(k) ==
    IF k.cur
    THEN [k EXCEPT !.cur = FALSE,
                   !.ws = IF @ = "open" THEN "closing"
                          ELSE IF @ = "connecting" THEN "aborted" ELSE @]
    ELSE k

RECURSIVE closeCurrent(_)
closeCurrent(calls) ==
    IF calls = <<>> THEN <<>>
    ELSE <<closeSocket(Head(calls))>> \o closeCurrent(Tail(calls))

closeWebSocket(p) == [p EXCEPT !.tts.calls = closeCurrent(@)]

stop(p) == closeWebSocket([p EXCEPT !.tts.isSynthesizing = FALSE])

TTS_disconnect(p) == [stop(p) EXCEPT !.tts.listening = FALSE]

\* this.ws = new WebSocket(...): the socket this.ws was, if any, is no longer it
synthesize(p, awaiter) ==
    [(IF p.tts.isSynthesizing THEN stop(p) ELSE p)
        EXCEPT !.tts.isSynthesizing = TRUE,
               !.tts.calls = Append(notCurrent(@),
                                    [ws |-> "connecting", cur |-> TRUE, timer |-> TRUE,
                                     pending |-> TRUE, awaiter |-> awaiter])]

\* ---- DeepgramSTTClient.  conns holds one record for each connection made
\* by connect: cur whether this.connection is that connection, timer
\* whether the 5 s connect timeout is armed, pending whether the promise of
\* connect is unsettled, awaiter the code awaiting it.
\* reconnectTimers holds the delays, in seconds, of the armed timers of
\* attemptReconnect.
maxReconnectAttempts == 5

newSTTClient ==
    [isConnected |-> FALSE, reconnectAttempts |-> 0, conns |-> <<>>, reconnectTimers |-> <<>>]

connect(p, awaiter) ==
    [p EXCEPT !.stt.conns = Append(notCurrent(@),
                                   [state |-> "connecting", cur |-> TRUE, timer |-> TRUE,
                                    pending |-> TRUE, awaiter |-> awaiter])]

\* this.connection, if any, is asked to close; this.connection = null
closeConnection(k) ==
    IF k.cur
    THEN [k EXCEPT !.cur = FALSE,
                   !.state = IF @ \in {"connecting", "open"} THEN "closing" ELSE @]
    ELSE k

RECURSIVE requestClose(_)
requestClose(conns) ==
    IF conns = <<>> THEN <<>>
    ELSE <<closeConnection(Head(conns))>> \o requestClose(Tail(conns))

STT_disconnect(p) ==
    IF \E i \in DOMAIN p.stt.conns : p.stt.conns[i].cur
    THEN [p EXCEPT !.stt.isConnected = FALSE, !.stt.conns = requestClose(@)]
    ELSE p

\* Math.pow(2, n)
RECURSIVE pow2(_)
pow2(n) == IF n = 0 THEN 1 ELSE 2 * pow2(n - 1)

\* the delay of attemptReconnect, in seconds, for the incremented counter
reconnectDelay(attempts) == pow2(attempts)

attemptReconnect(p) ==
    [p EXCEPT !.stt.reconnectAttempts = @ + 1,
              !.stt.reconnectTimers = Append(@, reconnectDelay(p.stt.reconnectAttempts + 1))]
\* ---- the calls made on collaborators: reconnectExhausted counts the
\* STT_RECONNECT_EXHAUSTED errors delivered to the session's listener.
\* dtmfCalls counts the session's calls of stateMachine.handleDTMFInput.
\* ---- CallSession.  sttClient, ttsClient and transport tell whether the
\* reference is non-null; dtmfTimer whether the 5 s inactivity timer is
\* armed; graceTimers the final states of the armed 3 s timers, oldest first.
newSession ==
    [destroyed |-> FALSE, sttClient |-> TRUE, ttsClient |-> TRUE, transport |-> TRUE,
     turnStartNs |-> 0, turnCounter |-> 0, dtmfBuffer |-> <<>>, dtmfTimer |-> FALSE,
     graceTimers |-> <<>>]

newEffects ==
    [sttDisconnects |-> 0, ttsDisconnects |-> 0, transportCloses |-> 0,
     playbackClears |-> 0, handoffs |-> <<>>, reconnectExhausted |-> 0,
     dtmfCalls |-> 0]

\* the StateMachineResult of the evaluation a handler has just made
resultOf(p) == p.lastCall[1].result[1]

\* destroy, statement by statement
markDestroyed(p) == [p EXCEPT !.session.destroyed = TRUE]

clearDtmfTimer(p) == [p EXCEPT !.session.dtmfTimer = FALSE]

disconnectSTT(p) ==
    IF p.session.sttClient
    THEN [STT_disconnect(p) EXCEPT !.effects.sttDisconnects = @ + 1]
    ELSE p

disconnectTTS(p) ==
    IF p.session.ttsClient
    THEN [TTS_disconnect(p) EXCEPT !.effects.ttsDisconnects = @ + 1]
    ELSE p

closeTransport(p) ==
    IF p.session.transport
    THEN [p EXCEPT !.effects.transportCloses = @ + 1]
    ELSE p

dropReferences(p) ==
    [p EXCEPT !.session.sttClient = FALSE, !.session.ttsClient = FALSE,
              !.session.transport = FALSE]

\* destroy without its guard
destroy_unguarded(p) ==
    callEnded(dropReferences(closeTransport(disconnectTTS(disconnectSTT(
        clearDtmfTimer(markDestroyed(p)))))))

destroy(p) ==
    IF p.session.destroyed THEN p
    ELSE callEnded(dropReferences(closeTransport(disconnectTTS(disconnectSTT(
             clearDtmfTimer(markDestroyed(p)))))))

\* the job handed to processCallbackNote
callbackNoteJob(ctx, eligible) ==
    [transcript |-> ctx.transcript,
     eligibilityResult |->
         [eligible |-> eligible,
          isSalaried |-> IF ctx.eligibility.isSalaried = NULL THEN FALSE
                         ELSE ctx.eligibility.isSalaried[1],
          salary |-> ctx.eligibility.salary,
          location |-> ctx.eligibility.location]]

processCallbackNote(p, eligible) ==
    [p EXCEPT !.effects.handoffs = Append(@, callbackNoteJob(p.context, eligible))]

callStatus(finalState) ==
    IF finalState = "ELIGIBLE_CONFIRMATION" THEN "eligible"
    ELSE IF finalState = "REJECTION" THEN "rejected" ELSE "abandoned"

\* endCall without its guard
endCall_unguarded(p, finalState) ==
    destroy(processCallbackNote(recordCallComplete(p, callStatus(finalState)),
                                finalState = "ELIGIBLE_CONFIRMATION"))

endCall(p, finalState) ==
    IF p.session.destroyed THEN p
    ELSE destroy(processCallbackNote(recordCallComplete(p, callStatus(finalState)),
                                     finalState = "ELIGIBLE_CONFIRMATION"))

\* handleFinalTranscript after the response was spoken (or was empty): the
\* turn's latency is recorded and, when the result ends the call, the grace
\* timer is armed
armGraceTimer(p, awaiter) ==
    IF awaiter.shouldEnd
    THEN [p EXCEPT !.session.graceTimers = Append(@, awaiter.newState)]
    ELSE p

completeTurn(p, awaiter) ==
    armGraceTimer([recordTurnLatency(p) EXCEPT !.session.turnStartNs = 0], awaiter)

\* the code that awaits speak: the rest of handleFinalTranscript; nothing
\* for handleTransportStart and for the keypad paths (void this.speak)
resume(p, awaiter) ==
    IF awaiter.kind = "final" THEN completeTurn(p, awaiter) ELSE p

\* speak without its catch: the rejection leaves speak after the finally
\* and the awaiting code does not go on
speakSettled_uncaught(p, awaiter, rejected) ==
    IF rejected THEN [p EXCEPT !.context = setBotSpeaking(@, FALSE)]
    ELSE resume([p EXCEPT !.context = setBotSpeaking(@, FALSE)], awaiter)

\* speak, once the promise of synthesize settles: catch, finally, return
speakSettled(p, awaiter, rejected) ==
    resume([(IF rejected THEN recordError(p, "tts") ELSE p)
                EXCEPT !.context = setBotSpeaking(@, FALSE)], awaiter)

\* speak, up to the await
speak(p, awaiter) ==
    IF p.session.destroyed \/ ~p.session.ttsClient \/ ~p.session.transport
    THEN resume(p, awaiter)
    ELSE synthesize([p EXCEPT !.context = setBotSpeaking(@, TRUE)], awaiter)

\* who awaits speak, with the result it goes on with
awaiting(kind, result) ==
    [kind |-> kind, shouldEnd |-> kind = "final" /\ result.shouldEnd,
     newState |-> result.newState]

\* handleFinalTranscript, statement by statement
\* the user's turn kept only when the transcript is a confident one
addUserTurn_confidentOnly(p, transcript, confidence) ==
    IF confidence < LOW_CONFIDENCE THEN p
    ELSE [p EXCEPT !.context = addTranscriptTurn(@,
        [turnId |-> p.session.turnCounter, speaker |-> "user", text |-> <<transcript>>,
         confidence |-> confidence, state |-> p.context.currentState])]

addUserTurn(p, transcript, confidence) ==
    [p EXCEPT !.context = addTranscriptTurn(@,
        [turnId |-> p.session.turnCounter, speaker |-> "user", text |-> <<transcript>>,
         confidence |-> confidence, state |-> p.context.currentState])]

addBotTurn(p) ==
    [p EXCEPT !.context = addTranscriptTurn(@,
        [turnId |-> p.session.turnCounter, speaker |-> "bot", text |-> resultOf(p).response,
         confidence |-> 100, state |-> resultOf(p).newState])]

evaluateInput(p, transcript, confidence) ==
    logCall(p, "handleUserInput", <<transcript>>, confidence, <<>>,
            handleUserInput(p.context, transcript, confidence))

\* an EngineError thrown by the state machine rejects the promise of the
\* handler, which the emitter drops: the rejection is unhandled and, no
\* 'unhandledRejection' listener being installed, Node 20 ends the process
unhandledRejection(p) == [p EXCEPT !.server.exited = TRUE]

respond(p) ==
    IF p.lastCall[1].result = NULL THEN unhandledRejection(p)
    ELSE IF resultOf(p).response # <<>>
    THEN speak(addBotTurn(p), awaiting("final", resultOf(p)))
    ELSE completeTurn(p, awaiting("final", resultOf(p)))

handleFinalTranscript(p, transcript, confidence) ==
    IF p.session.destroyed THEN p
    ELSE respond(evaluateInput(addUserTurn([p EXCEPT !.session.turnCounter = @ + 1],
                                           transcript, confidence),
                               transcript, confidence))

bargeIn(p) ==
    recordBargeIn(
        (IF p.session.transport THEN [p EXCEPT !.effects.playbackClears = @ + 1] ELSE p))

\* handleInterimTranscript with >= where the code has >
handleInterimTranscript_inclusive(p, confidence) ==
    IF p.session.destroyed THEN p
    ELSE IF p.context.isBotSpeaking /\ confidence >= BARGE_IN_CONFIDENCE
    THEN bargeIn([(IF p.session.ttsClient THEN stop(p) ELSE p)
                      EXCEPT !.context = setBotSpeaking(@, FALSE)])
    ELSE p

\* handleInterimTranscript handing the interim to the state machine as well
handleInterimTranscript_asFinal(p, confidence) ==
    IF p.session.destroyed THEN p
    ELSE evaluateInput(p, "yes", confidence)

handleInterimTranscript(p, confidence) ==
    IF p.session.destroyed THEN p
    ELSE IF p.context.isBotSpeaking /\ confidence > BARGE_IN_CONFIDENCE
    THEN bargeIn([(IF p.session.ttsClient THEN stop(p) ELSE p)
                      EXCEPT !.context = setBotSpeaking(@, FALSE)])
    ELSE p

\* the keypad answer is handed to the state machine, the buffer is emptied,
\* the response is spoken without awaiting it and the call is ended at once
\* when the result says so (the '#' branch; the timer callback and the
\* single digit branch repeat it)
speakUnawaited(p) ==
    IF resultOf(p).response # <<>> THEN speak(p, awaiting("dtmf", resultOf(p))) ELSE p

endIfShouldEnd(p) ==
    IF resultOf(p).shouldEnd THEN endCall(p, resultOf(p).newState) ELSE p

\* each statement works on the value the one before it left: the set
\* constructors bind that value once
submitDTMF(p, digits) ==
    CHOOSE r \in
        {endIfShouldEnd(spoken) : spoken \in
            {speakUnawaited(handled) : handled \in
                {[logCall(p, "handleDTMFInput", <<>>, 0, digits,
                          handleDTMFInput(p.context, digits))
                     EXCEPT !.session.dtmfBuffer = <<>>,
                            !.effects.dtmfCalls = @ + 1]}}} : TRUE

bufferDigit(p, digit) ==
    IF digit = "#"
    THEN clearDtmfTimer(submitDTMF(p, p.session.dtmfBuffer))
    ELSE [p EXCEPT !.session.dtmfBuffer = Append(@, digit), !.session.dtmfTimer = TRUE]

\* the single-key branch taken whatever question the keys answer
singleDigit_anyQuestion(p, digit) ==
    IF digit \in {"1", "2"} THEN submitDTMF(p, <<digit>>) ELSE p

singleDigit(p, digit) ==
    IF digit \in {"1", "2"} /\ p.context.previousState = Some("ASK_EMPLOYMENT")
    THEN submitDTMF(p, <<digit>>)
    ELSE p

handleTransportDTMF(p, digit) ==
    IF p.context.currentState # "DTMF_FALLBACK" THEN p
    ELSE recordDtmfFallback(singleDigit(bufferDigit(p, digit), digit))

\* the timer callback discarding the buffered keys
dtmfTimerFired_discard(p) ==
    clearDtmfTimer([p EXCEPT !.session.dtmfBuffer = <<>>])

\* the timer callback without its test of the buffer
dtmfTimerFired_unguarded(p) ==
    submitDTMF(clearDtmfTimer(p), p.session.dtmfBuffer)

\* the callback of the 5 s inactivity timer
dtmfTimerFired(p) ==
    IF Len(p.session.dtmfBuffer) > 0
    THEN submitDTMF(clearDtmfTimer(p), p.session.dtmfBuffer)
    ELSE clearDtmfTimer(p)

\* the callback of the oldest 3 s grace timer
graceTimerFired(p) ==
    endCall([p EXCEPT !.session.graceTimers = Tail(@)], Head(p.session.graceTimers))

handleTransportStop(p) == endCall(p, p.context.currentState)

handleTransportAudio(p) ==
    IF p.session.destroyed THEN p
    ELSE IF p.session.turnStartNs = 0 THEN [p EXCEPT !.session.turnStartNs = 1] ELSE p

\* handleTransportStart after the await of connect
speakGreeting(p) == speak(p, awaiting("start", resultOf(p)))

startPipeline(p) ==
    speakGreeting(logCall(p, "startConversation", <<>>, 0, <<>>,
                          startConversation(p.context)))

\* handleTransportStart when the awaited connect rejects
startFailed(p) == destroy(recordError(p, "engine"))

handleTransportStart(p) ==
    IF p.session.sttClient
    THEN connect(p, [kind |-> "start"])
    ELSE startPipeline(p)
\* ---- the promise of synthesize call i settles (a second settlement is ignored)
settleSynthesize(p, i, rejected) ==
    IF ~p.tts.calls[i].pending THEN p
    ELSE speakSettled([p EXCEPT !.tts.calls[i].pending = FALSE],
                      p.tts.calls[i].awaiter, rejected)

\* ---- the socket handlers installed by synthesize, for the socket of call i
TTS_onTimeout(p, i) ==
    settleSynthesize(stop([p EXCEPT !.tts.calls[i].timer = FALSE]), i, TRUE)

TTS_onOpen(p, i) == [p EXCEPT !.tts.calls[i].ws = "open", !.tts.calls[i].timer = FALSE]

\* a message with isFinal; the server ends the stream after it
TTS_onFinal(p, i) ==
    [settleSynthesize(closeWebSocket([p EXCEPT !.tts.isSynthesizing = FALSE]), i, FALSE)
        EXCEPT !.tts.calls[i].ws = IF @ = "open" THEN "closing" ELSE @]

\* a message with error: emitted to the session's listener (without one the
\* throw of emit is caught by the handler); the promise is left pending, and
\* the server ends the stream
TTS_onApiError(p, i) ==
    [(IF p.tts.listening THEN recordError(p, "tts") ELSE p)
        EXCEPT !.tts.calls[i].ws = "closing"]

\* 'error' (followed by 'close'): without a listener emit('error') throws
\* and reject is not reached
emitError(p, i) ==
    IF p.tts.listening THEN settleSynthesize(recordError(p, "tts"), i, TRUE) ELSE p

TTS_onError(p, i) ==
    emitError([p EXCEPT !.tts.calls[i].ws = "closing", !.tts.calls[i].timer = FALSE,
                        !.tts.isSynthesizing = FALSE], i)

TTS_onClose(p, i) ==
    [p EXCEPT !.tts.calls[i].ws = "closed", !.tts.isSynthesizing = FALSE]

\* ---- the promise of connect call i settles
\* the catch of attemptReconnect's timer callback: once the attempts are
\* used up the error reaches the session's 'error' listener
reconnectFailed(p) ==
    IF p.stt.reconnectAttempts >= maxReconnectAttempts
    THEN [recordError(p, "stt") EXCEPT !.effects.reconnectExhausted = @ + 1]
    ELSE p

connectSettled(p, awaiter, rejected) ==
    IF awaiter.kind = "reconnect"
    THEN (IF rejected THEN reconnectFailed(p) ELSE p)
    ELSE IF rejected THEN startFailed(p) ELSE startPipeline(p)

settleConnect(p, i, rejected) ==
    IF ~p.stt.conns[i].pending THEN p
    ELSE connectSettled([p EXCEPT !.stt.conns[i].pending = FALSE],
                        p.stt.conns[i].awaiter, rejected)

\* ---- the connection handlers installed by connect and setupEventHandlers
STT_onTimeout(p, i) == settleConnect([p EXCEPT !.stt.conns[i].timer = FALSE], i, TRUE)

STT_onOpen(p, i) ==
    settleConnect([p EXCEPT !.stt.conns[i].state = "open", !.stt.conns[i].timer = FALSE,
                            !.stt.isConnected = TRUE, !.stt.reconnectAttempts = 0], i, FALSE)

STT_onError(p, i) ==
    settleConnect(recordError([p EXCEPT !.stt.conns[i].state = "closing",
                                        !.stt.conns[i].timer = FALSE], "stt"), i, TRUE)

\* LiveTranscriptionEvents.Close of connection i
STT_onClose(p, i) ==
    IF p.stt.reconnectAttempts < maxReconnectAttempts
    THEN attemptReconnect([p EXCEPT !.stt.conns[i].state = "closed",
                                    !.stt.isConnected = FALSE])
    ELSE [p EXCEPT !.stt.conns[i].state = "closed", !.stt.isConnected = FALSE]

\* the callback of reconnect timer k
reconnectTimerFired(p, k) ==
    connect([p EXCEPT !.stt.reconnectTimers =
                          SubSeq(@, 1, k - 1) \o SubSeq(@, k + 1, Len(@))],
            [kind |-> "reconnect"])

\* ---- the route of the server: the socket's 'close' reaches the transport's
\* listener (onStop) and then the route's; 'error' reaches only the route's.
\* starts counts the 'start' messages the transport has delivered,
\* exited whether the process has ended.
newServer == [activeSessions |-> TRUE, socket |-> "open", starts |-> 0, exited |-> FALSE]

routeDestroy(p) ==
    IF p.server.activeSessions
    THEN [destroy(p) EXCEPT !.server.activeSessions = FALSE]
    ELSE p

onSocketClose(p) == routeDestroy(handleTransportStop([p EXCEPT !.server.socket = "closed"]))

onSocketError(p) == routeDestroy([p EXCEPT !.server.socket = "errored"])

shutdown(p) == routeDestroy(p)

\* ---- what follows a handler before the next event: a socket closed while
\* connecting emits 'error' and 'close' on the next tick; sockets that are
\* closed and whose promise is settled are forgotten
RECURSIVE nextTick(_, _)
nextTick(p, i) ==
    IF i > Len(p.tts.calls) THEN p
    ELSE IF p.tts.calls[i].ws = "aborted"
    THEN nextTick(TTS_onClose(TTS_onError(p, i), i), i + 1)
    ELSE nextTick(p, i + 1)

RECURSIVE unsettled(_)
unsettled(calls) ==
    IF calls = <<>> THEN <<>>
    ELSE (IF Head(calls).ws # "closed" \/ Head(calls).pending \/ Head(calls).timer
          THEN <<Head(calls)>> ELSE <<>>) \o unsettled(Tail(calls))

RECURSIVE unclosed(_)
unclosed(conns) ==
    IF conns = <<>> THEN <<>>
    ELSE (IF Head(conns).state # "closed" \/ Head(conns).pending \/ Head(conns).timer
          THEN <<Head(conns)>> ELSE <<>>) \o unclosed(Tail(conns))

forget(p) == [p EXCEPT !.tts.calls = unsettled(@), !.stt.conns = unclosed(@)]

Assign(q) ==
    /\ context' = q.context
    /\ session' = q.session
    /\ tts' = q.tts
    /\ stt' = q.stt
    /\ metrics' = q.metrics
    /\ effects' = q.effects
    /\ server' = q.server
    /\ lastCall' = q.lastCall

\* a process that has ended handles no event
Becomes(p) == ~server.exited /\ \E q \in {forget(nextTick(p, 1))} : Assign(q)

Init ==
    /\ context = initialContext
    /\ session = newSession
    /\ tts = newTTSClient
    /\ stt = newSTTClient
    /\ metrics = callStarted(newMetrics)
    /\ effects = newEffects
    /\ server = newServer
    /\ lastCall = NULL
\* ------------------------------------------------------------------------
\* The environment: what the caller, Twilio, Deepgram and ElevenLabs may
\* deliver, and when
\* ------------------------------------------------------------------------
\* final transcripts (text, confidence) of the session level exploration
SessionFinals == {<<"no", 95>>, <<"Pune", 69>>}

\* final transcripts of the exploration of the state machine
MachineFinals == {<<t, c>> : t \in Utterances, c \in FinalConfidences}

\* the key sequences a caller types between two flushes of the buffer
SessionEntries == {<<"1">>, <<"2">>}

\* the keypad answers handed to the state machine in its exploration
MachineDigits ==
    {<<>>, <<"1">>, <<"2">>, <<"3">>, <<"3", "5", "0", "0">>, <<"3", "5", "0", "0", "0">>,
     <<"2", "5", "0", "0", "0">>}

IsPrefix(s, e) == Len(s) <= Len(e) /\ SubSeq(e, 1, Len(s)) = s

\* the sockets of synthesize that are not closed yet
LiveCalls == {i \in DOMAIN tts.calls : tts.calls[i].ws # "closed"}

\* at most MaxCalls utterances are in flight at once
Room == Cardinality(LiveCalls) < MaxCalls

\* Deepgram delivers transcripts on a connection that is open, and the
\* remaining ones after requestClose
Hearing == \E i \in DOMAIN stt.conns : stt.conns[i].state \in {"open", "closing"}

\* ------------------------------------------------------------------------
\* Actions: one per event delivered to the process
\* ------------------------------------------------------------------------
\* Twilio sends the 'start' message of a stream once
TransportStart ==
    /\ server.socket = "open"
    /\ server.starts = 0
    /\ Becomes(handleTransportStart([Now EXCEPT !.server.starts = 1]))

TransportAudio ==
    /\ server.socket = "open"
    /\ Becomes(handleTransportAudio(Now))

TransportDTMF(entries, maxDtmf, ready) ==
    /\ server.socket = "open"
    /\ ready
    /\ metrics.dtmfFallbacksTotal < maxDtmf
    /\ \E digit \in DtmfKeys :
          /\ digit = "#" \/ \E e \in entries : IsPrefix(Append(session.dtmfBuffer, digit), e)
          /\ Becomes(handleTransportDTMF(Now, digit))

TransportStop ==
    /\ server.socket = "open"
    /\ Becomes(handleTransportStop(Now))

DtmfTimer ==
    /\ session.dtmfTimer
    /\ Becomes(dtmfTimerFired(Now))

GraceTimer ==
    /\ session.graceTimers # <<>>
    /\ Becomes(graceTimerFired(Now))

FinalTranscript(events, maxTurns, ready) ==
    /\ Hearing
    /\ ready
    /\ session.turnCounter < maxTurns
    /\ \E e \in events : Becomes(handleFinalTranscript(Now, e[1], e[2]))

InterimTranscript ==
    /\ Hearing
    /\ \E confidence \in InterimConfidences : Becomes(handleInterimTranscript(Now, confidence))

SttOpen ==
    \E i \in DOMAIN stt.conns :
        /\ stt.conns[i].state = "connecting"
        /\ Becomes(STT_onOpen(Now, i))

SttError ==
    \E i \in DOMAIN stt.conns :
        /\ metrics.errorsTotal.stt < MaxSttErrors
        /\ stt.conns[i].state \in {"connecting", "open"}
        /\ Becomes(STT_onError(Now, i))

SttClose ==
    \E i \in DOMAIN stt.conns :
        /\ stt.conns[i].state \in {"open", "closing"}
        /\ Becomes(STT_onClose(Now, i))

ReconnectTimer ==
    \E k \in DOMAIN stt.reconnectTimers : Becomes(reconnectTimerFired(Now, k))

SttTimeout ==
    \E i \in DOMAIN stt.conns :
        /\ stt.conns[i].timer
        /\ Becomes(STT_onTimeout(Now, i))

TtsOpen ==
    \E i \in DOMAIN tts.calls :
        /\ tts.calls[i].ws = "connecting"
        /\ Becomes(TTS_onOpen(Now, i))

TtsFinal ==
    \E i \in DOMAIN tts.calls :
        /\ tts.calls[i].ws = "open"
        /\ Becomes(TTS_onFinal(Now, i))

TtsApiError ==
    \E i \in DOMAIN tts.calls :
        /\ tts.calls[i].ws = "open"
        /\ Becomes(TTS_onApiError(Now, i))

TtsError ==
    \E i \in DOMAIN tts.calls :
        /\ tts.calls[i].ws \in {"connecting", "open"}
        /\ Becomes(TTS_onError(Now, i))

TtsClose ==
    \E i \in DOMAIN tts.calls :
        /\ tts.calls[i].ws \in {"open", "closing"}
        /\ Becomes(TTS_onClose(Now, i))

TtsTimeout ==
    \E i \in DOMAIN tts.calls :
        /\ tts.calls[i].timer
        /\ Becomes(TTS_onTimeout(Now, i))

SocketClose ==
    /\ server.socket # "closed"
    /\ Becomes(onSocketClose(Now))

SocketError ==
    /\ server.socket = "open"
    /\ Becomes(onSocketError(Now))

Shutdown ==
    /\ server.activeSessions
    /\ Becomes(shutdown(Now))

\* ---- the session under every interleaving of the events of the caller,
\* the transport, the server and the two services, the services not failing
Next ==
    \/ TransportStart
    \/ TransportAudio
    \/ TransportDTMF(SessionEntries, MaxDtmf, Room)
    \/ TransportStop
    \/ DtmfTimer
    \/ GraceTimer
    \/ FinalTranscript(SessionFinals, MaxTurns, Room)
    \/ InterimTranscript
    \/ SttOpen
    \/ TtsOpen
    \/ TtsFinal
    \/ TtsClose
    \/ SocketClose
    \/ SocketError
    \/ Shutdown

Spec == Init /\ [][Next]_vars

\* ---- the session when the two services fail as well, over one turn
NextFaults ==
    \/ TransportStart
    \/ FinalTranscript(SessionFinals, MaxFaultTurns, Room)
    \/ InterimTranscript
    \/ GraceTimer
    \/ SttOpen
    \/ SttError
    \/ SttTimeout
    \/ TtsOpen
    \/ TtsFinal
    \/ TtsApiError
    \/ TtsError
    \/ TtsClose
    \/ TtsTimeout
    \/ SocketClose

SpecFaults == Init /\ [][NextFaults]_vars

\* ---- the state machine alone, under every sequence of calls of its
\* methods that a session makes: startConversation once, then user inputs
\* and keypad answers in any order
StartConversation ==
    /\ context.currentState = "GREETING"
    /\ Becomes(logCall(Now, "startConversation", <<>>, 0, <<>>, startConversation(context)))

HandleUserInput ==
    /\ context.currentState # "GREETING"
    /\ context.turnCount < MaxMachineTurns
    /\ \E e \in MachineFinals :
          Becomes(logCall(Now, "handleUserInput", <<e[1]>>, e[2], <<>>,
                          handleUserInput(context, e[1], e[2])))

HandleDTMFInput ==
    /\ context.currentState # "GREETING"
    /\ \E digits \in MachineDigits :
          Becomes(logCall(Now, "handleDTMFInput", <<>>, 0, digits,
                          handleDTMFInput(context, digits)))

NextMachine ==
    \/ StartConversation
    \/ HandleUserInput
    \/ HandleDTMFInput

SpecMachine == Init /\ [][NextMachine]_vars

\* ---- the session when the caller does not wait for the bot: final
\* transcripts arrive whether or not an utterance is being synthesized
NextOverlap ==
    \/ TransportStart
    \/ TransportStop
    \/ FinalTranscript(SessionFinals, MaxOverlapTurns, TRUE)
    \/ InterimTranscript
    \/ GraceTimer
    \/ SttOpen
    \/ TtsOpen
    \/ TtsFinal
    \/ TtsClose

SpecOverlap == Init /\ [][NextOverlap]_vars

\* ---- the recognition channel closing and failing, with its reconnection
NextReconnect ==
    \/ TransportStart
    \/ TransportStop
    \/ FinalTranscript(SessionFinals, MaxFaultTurns, Room)
    \/ SttOpen
    \/ SttError
    \/ SttTimeout
    \/ SttClose
    \/ ReconnectTimer
    \/ TtsOpen
    \/ TtsFinal
    \/ TtsClose
    \/ GraceTimer

SpecReconnect == Init /\ [][NextReconnect]_vars

\* the same with the fairness the runtime gives: an armed timer fires, and
\* a connection that was asked to close or failed does close.  Nothing
\* obliges the caller, Twilio or the services to send anything.
CloseRequested ==
    \E i \in DOMAIN stt.conns :
        /\ stt.conns[i].state = "closing"
        /\ Becomes(STT_onClose(Now, i))

SpecReconnectFair ==
    /\ SpecReconnect
    /\ WF_vars(ReconnectTimer)
    /\ WF_vars(GraceTimer)
    /\ WF_vars(SttTimeout)
    /\ WF_vars(CloseRequested)

\* ---- the session when a final transcript may reach it before the
\* conversation has started, the state machine being in GREETING, as well
\* as on an open connection
UnstartedFinalTranscript ==
    /\ Hearing \/ context.currentState = "GREETING"
    /\ Room
    /\ session.turnCounter < MaxTurns
    /\ \E e \in SessionFinals : Becomes(handleFinalTranscript(Now, e[1], e[2]))

NextUnstarted ==
    \/ UnstartedFinalTranscript
    \/ TransportStart
    \/ TransportStop
    \/ InterimTranscript
    \/ GraceTimer
    \/ SttOpen
    \/ TtsOpen
    \/ TtsFinal
    \/ TtsClose
    \/ SocketClose

SpecUnstarted == Init /\ [][NextUnstarted]_vars
\* ---- the caller at the keypad: low-confidence answers until the bot asks
\* for keys, then digits, '#', pauses longer than the inactivity timeout,
\* and answers spoken while digits are buffered
\* what the caller says: a clear or an inaudible answer to the employment
\* question, inaudible answers afterwards, and, once asked for keys, the
\* salary spoken aloud
KeypadFinals ==
    IF context.currentState = "ASK_EMPLOYMENT" THEN {<<"yes", 95>>}
    ELSE IF context.currentState = "DTMF_FALLBACK" THEN {<<"twenty thousand", 95>>}
    ELSE {<<"Pune", 69>>}

KeypadEntries == {<<"1">>, <<"3", "5", "0", "0", "0">>}

MaxKeypadTurns == 5

MaxKeypadDigits == 6

\* the caller types an entry key by key and ends it with '#'
KeypadDTMF ==
    /\ server.socket = "open"
    /\ Room
    /\ metrics.dtmfFallbacksTotal < MaxKeypadDigits
    /\ \E digit \in DtmfKeys :
          /\ IF digit = "#" THEN session.dtmfBuffer # <<>>
             ELSE \E e \in KeypadEntries : IsPrefix(Append(session.dtmfBuffer, digit), e)
          /\ Becomes(handleTransportDTMF(Now, digit))

NextKeypad ==
    \/ TransportStart
    \/ SttOpen
    \/ FinalTranscript(KeypadFinals, MaxKeypadTurns, Room)
    \/ KeypadDTMF
    \/ GraceTimer
    \/ DtmfTimer
    \/ TtsOpen
    \/ TtsFinal
    \/ TtsClose

SpecKeypad == Init /\ [][NextKeypad]_vars

\* the same with the fairness the runtime gives: an armed inactivity timer
\* fires.  Nothing obliges the caller to press a key or to speak.
SpecKeypadFair == SpecKeypad /\ WF_vars(DtmfTimer)
\* ---- the transport delivering 'start' again on a stream that has
\* started: the browser transport calls the start callback from its
\* auto-start and for every 'start' message of the client
MaxStarts == 2

TransportRestart ==
    /\ server.socket = "open"
    /\ server.starts \in 1..(MaxStarts - 1)
    /\ Becomes(handleTransportStart([Now EXCEPT !.server.starts = @ + 1]))

NextRestart ==
    \/ TransportStart
    \/ TransportRestart
    \/ FinalTranscript(SessionFinals, MaxOverlapTurns, Room)
    \/ GraceTimer
    \/ SttOpen
    \/ TtsOpen
    \/ TtsFinal
    \/ TtsClose

SpecRestart == Init /\ [][NextRestart]_vars

\* ---- the caller speaking over the bot: interim transcripts arrive while
\* an utterance is synthesized, finals only between utterances
NextBargeIn ==
    \/ TransportStart
    \/ TransportAudio
    \/ FinalTranscript(SessionFinals, MaxOverlapTurns, Room)
    \/ InterimTranscript
    \/ GraceTimer
    \/ SttOpen
    \/ TtsOpen
    \/ TtsFinal
    \/ TtsClose

SpecBargeIn == Init /\ [][NextBargeIn]_vars

\* the same with the fairness the runtime and a working synthesis service
\* give: an armed timer fires, a socket being opened opens, an open socket
\* receives its final message, a socket being closed closes.  Nothing
\* obliges the caller or the transport to send anything.
SpecBargeInFair ==
    /\ SpecBargeIn
    /\ WF_vars(GraceTimer)
    /\ WF_vars(TtsOpen)
    /\ WF_vars(TtsFinal)
    /\ WF_vars(TtsClose)

\* ---- synthesis pre-empted: the caller also answers before the bot has
\* finished, so that a response is synthesized while another one is
NextSynthesis ==
    \/ TransportStart
    \/ FinalTranscript(SessionFinals, MaxOverlapTurns, TRUE)
    \/ InterimTranscript
    \/ GraceTimer
    \/ SttOpen
    \/ TtsOpen
    \/ TtsFinal
    \/ TtsClose

SpecSynthesis == Init /\ [][NextSynthesis]_vars

SpecSynthesisFair ==
    /\ SpecSynthesis
    /\ WF_vars(GraceTimer)
    /\ WF_vars(TtsOpen)
    /\ WF_vars(TtsFinal)
    /\ WF_vars(TtsClose)

\* ---- a caller who is started over in the middle of the keypad fallback:
\* a clear answer to the employment question, inaudible ones to the salary
\* question, the salary typed without '#', and after the second 'start'
\* the answers of somebody who is not salaried
RestartFinals ==
    IF context.currentState = "ASK_EMPLOYMENT"
    THEN (IF server.starts < MaxStarts THEN {<<"yes", 95>>} ELSE {<<"no", 95>>})
    ELSE IF context.currentState = "ASK_SALARY" THEN {<<"Pune", 69>>}
    ELSE IF context.currentState = "ASK_LOCATION" THEN {<<"Mumbai", 95>>}
    ELSE {}

MaxRestartTurns == 6

NextRestartKeypad ==
    \/ TransportStart
    \/ TransportRestart
    \/ SttOpen
    \/ FinalTranscript(RestartFinals, MaxRestartTurns, Room)
    \/ KeypadDTMF
    \/ GraceTimer
    \/ DtmfTimer
    \/ TtsOpen
    \/ TtsFinal
    \/ TtsClose

SpecRestartKeypad == Init /\ [][NextRestartKeypad]_vars
\* ------------------------------------------------------------------------
\* Properties
\* ------------------------------------------------------------------------
\* the most recent evaluation of the state machine was a call of op
Called(op) == lastCall # NULL /\ lastCall[1].op = op

\* the context before that call, its transcript argument, and its result
Before == lastCall[1].pre

Heard == lastCall[1].transcript[1]

Returned == lastCall[1].result[1]

\* the call was not diverted to handleLowConfidence
Confident == lastCall[1].confidence >= LOW_CONFIDENCE

\* the dialogue after startConversation on a fresh session, and after each
\* answer of the eligible caller
AskingEmployment == DialogueOf(startConversation(initialContext).ctx)

AskingSalary ==
    [AskingEmployment EXCEPT !.currentState = "ASK_SALARY",
                             !.eligibility.isSalaried = Some(TRUE), !.turnCount = 1]

AskingLocation ==
    [AskingSalary EXCEPT !.currentState = "ASK_LOCATION",
                         !.eligibility.salary = Some(35000), !.turnCount = 2]

Confirmed ==
    [AskingLocation EXCEPT !.currentState = "ELIGIBLE_CONFIRMATION",
                           !.eligibility.location = Some("mumbai"), !.turnCount = 3]

\* C1: from a fresh session after startConversation, three final transcripts
\* at confidence 0.95 classified salaried, 35000 and 'mumbai' ("yes", "thirty
\* five thousand rupees", "Mumbai") lead, one answer at a time, to
\* ELIGIBLE_CONFIRMATION with eligibility {true, 35000, 'mumbai'}, and the
\* third result has shouldEnd = true.
C1_HappyPath ==
    /\ employmentOf["yes"] = Some(TRUE)
    /\ salaryOf["thirty five thousand rupees"] = Some(35000)
    /\ locationOf["Mumbai"] = Some("mumbai")
    /\ (Called("handleUserInput") /\ lastCall[1].confidence = 95) =>
           /\ (Before = AskingEmployment /\ employmentOf[Heard] = Some(TRUE)) =>
                  DialogueOf(context) = AskingSalary
           /\ (Before = AskingSalary /\ salaryOf[Heard] = Some(35000)) =>
                  DialogueOf(context) = AskingLocation
           /\ (Before = AskingLocation /\ locationOf[Heard] = Some("mumbai")) =>
                  /\ DialogueOf(context) = Confirmed
                  /\ Returned.shouldEnd
                  /\ Returned.newState = "ELIGIBLE_CONFIRMATION"

C1_Reached ==
    /\ Called("handleUserInput")
    /\ lastCall[1].confidence = 95
    /\ Before = AskingLocation
    /\ Heard = "Mumbai"
    /\ DialogueOf(context) = Confirmed
    /\ Returned.shouldEnd

\* the salary the last call parsed: by handleSalaryResponse from a voice
\* answer, or by handleDTMFInput from the keys when previousState = ASK_SALARY
VoiceSalaryAnswer ==
    /\ Called("handleUserInput")
    /\ Confident \/ Before.currentState = "DTMF_FALLBACK"
    /\ \/ Before.currentState = "ASK_SALARY"
       \/ /\ Before.currentState \in {"CLARIFICATION", "DTMF_FALLBACK"}
          /\ Before.previousState = Some("ASK_SALARY")

KeyedSalaryAnswer ==
    Called("handleDTMFInput") /\ Before.previousState = Some("ASK_SALARY")

ParsedSalary ==
    IF VoiceSalaryAnswer THEN salaryOf[Heard]
    ELSE IF KeyedSalaryAnswer THEN SalaryParser_parseDTMF(lastCall[1].digit)
    ELSE NULL

\* C2: every parsed salary v, from a voice answer or from keypad digits,
\* leads to REJECTION with reason 'salary' and shouldEnd when v < 25000, and
\* to ASK_LOCATION without shouldEnd when v >= 25000.
C2_SalaryThreshold ==
    ParsedSalary # NULL =>
        IF ParsedSalary[1] < 25000
        THEN /\ context.currentState = "REJECTION"
             /\ context.rejectionReason = Some("salary")
             /\ Returned.shouldEnd
        ELSE /\ context.currentState = "ASK_LOCATION"
             /\ ~Returned.shouldEnd

C2_Reached ==
    /\ KeyedSalaryAnswer
    /\ Before.currentState = "DTMF_FALLBACK"
    /\ ParsedSalary = Some(25000)
    /\ context.currentState = "ASK_LOCATION"

\* C3: in ASK_EMPLOYMENT a confident answer is dispatched on the validator's
\* result: true moves to ASK_SALARY with clarificationAttempts 0; false
\* rejects with reason 'employment' and shouldEnd; null takes the
\* clarification path and neither rejects nor advances.
C3_EmploymentDispatch ==
    (Called("handleUserInput") /\ Confident /\ Before.currentState = "ASK_EMPLOYMENT") =>
        CASE employmentOf[Heard] = Some(TRUE) ->
                 /\ context.currentState = "ASK_SALARY"
                 /\ context.clarificationAttempts = 0
                 /\ ~Returned.shouldEnd
          [] employmentOf[Heard] = Some(FALSE) ->
                 /\ context.currentState = "REJECTION"
                 /\ context.rejectionReason = Some("employment")
                 /\ Returned.shouldEnd
          [] employmentOf[Heard] = NULL ->
                 /\ context.currentState \in {"CLARIFICATION", "DTMF_FALLBACK"}
                 /\ context.previousState = Some("ASK_EMPLOYMENT")
                 /\ context.clarificationAttempts = Before.clarificationAttempts + 1
                 /\ context.rejectionReason = Before.rejectionReason
                 /\ ~Returned.shouldEnd

C3_Reached ==
    /\ Called("handleUserInput")
    /\ Confident
    /\ Before.currentState = "ASK_EMPLOYMENT"
    /\ Before.clarificationAttempts > 0
    /\ employmentOf[Heard] = Some(TRUE)
    /\ context.currentState = "ASK_SALARY"
    /\ context.clarificationAttempts = 0

\* the 'call complete' outcomes emitted so far
CallsCompleted ==
    metrics.callsTotal.eligible + metrics.callsTotal.rejected + metrics.callsTotal.abandoned

\* C4: a session emits at most one 'call complete' outcome and makes at most
\* one post-call handoff, whatever the interleaving of closes, errors, grace
\* timers, keypad endings and final transcripts that signal shouldEnd.
C4_OneOutcome == CallsCompleted <= 1 /\ Len(effects.handoffs) <= 1

\* every turn is completed, the last one signalled shouldEnd, its grace
\* timer has fired and the socket has closed: endCall ran at least twice
C4_Reached ==
    /\ Called("handleUserInput")
    /\ lastCall[1].result # NULL
    /\ Returned.shouldEnd
    /\ session.turnCounter >= 2
    /\ metrics.turnsTotal = session.turnCounter
    /\ session.graceTimers = <<>>
    /\ server.socket = "closed"
    /\ CallsCompleted = 1
    /\ Len(effects.handoffs) = 1

\* C5: destroy performs its teardown exactly once however often it is
\* invoked: the two channels are disconnected once, the transport is closed
\* once and the active-call gauge is decremented once.
C5_DestroyOnce ==
    IF session.destroyed
    THEN /\ effects.sttDisconnects = 1
         /\ effects.ttsDisconnects = 1
         /\ effects.transportCloses = 1
         /\ metrics.activeCalls = 0
    ELSE /\ effects.sttDisconnects = 0
         /\ effects.ttsDisconnects = 0
         /\ effects.transportCloses = 0
         /\ metrics.activeCalls = 1

\* endCall destroyed the session (it made the handoff) and the route's close
\* or error handler, or shutdown, invoked destroy as well
C5_Reached ==
    /\ session.destroyed
    /\ Len(effects.handoffs) = 1
    /\ ~server.activeSessions
    /\ server.socket = "closed"

\* C6: a handleUserInput call made in ELIGIBLE_CONFIRMATION, REJECTION or
\* ENDED returns an empty response, shouldEnd = true and newState = ENDED,
\* whatever the transcript and the confidence.
C6_TerminalInput ==
    (/\ Called("handleUserInput")
     /\ Before.currentState \in {"ELIGIBLE_CONFIRMATION", "REJECTION", "ENDED"}) =>
        /\ lastCall[1].result # NULL
        /\ Returned = [response |-> <<>>, shouldEnd |-> TRUE, newState |-> "ENDED"]

\* a confident answer to question that its validator does not understand
NullAnswer(question) ==
    /\ Called("handleUserInput")
    /\ Confident
    /\ \/ question = "ASK_EMPLOYMENT" /\ employmentOf[Heard] = NULL
       \/ question = "ASK_SALARY" /\ salaryOf[Heard] = NULL

Asking(ctx, state, question, attempts) ==
    /\ ctx.currentState = state
    /\ state # question => ctx.previousState = Some(question)
    /\ ctx.clarificationAttempts = attempts

\* C7: from ASK_EMPLOYMENT or ASK_SALARY with clarificationAttempts = 0, the
\* first and the second confident null answer give CLARIFICATION with
\* previousState the question, and the third gives DTMF_FALLBACK with the
\* same previousState.
C7_ClarificationCap ==
    \A question \in {"ASK_EMPLOYMENT", "ASK_SALARY"} :
        NullAnswer(question) =>
            /\ Asking(Before, question, question, 0) =>
                   Asking(context, "CLARIFICATION", question, 1)
            /\ Asking(Before, "CLARIFICATION", question, 1) =>
                   Asking(context, "CLARIFICATION", question, 2)
            /\ Asking(Before, "CLARIFICATION", question, 2) =>
                   Asking(context, "DTMF_FALLBACK", question, 3)

C7_Reached ==
    /\ NullAnswer("ASK_EMPLOYMENT")
    /\ Asking(Before, "CLARIFICATION", "ASK_EMPLOYMENT", 2)
    /\ Before.turnCount = 2
    /\ Asking(context, "DTMF_FALLBACK", "ASK_EMPLOYMENT", 3)

\* C8: an answer to the location question, ambiguous or of low confidence,
\* that takes clarificationAttempts beyond 2 leads directly to REJECTION with
\* reason 'location_unclear' and shouldEnd.
C8_LocationCap ==
    (/\ Called("handleUserInput")
     /\ \/ Before.currentState = "ASK_LOCATION"
        \/ /\ Before.currentState = "CLARIFICATION"
           /\ Before.previousState = Some("ASK_LOCATION")
     /\ Before.clarificationAttempts <= MAX_CLARIFICATION_ATTEMPTS
     /\ context.clarificationAttempts > MAX_CLARIFICATION_ATTEMPTS) =>
        /\ context.currentState = "REJECTION"
        /\ context.rejectionReason = Some("location_unclear")
        /\ Returned.shouldEnd

\* what a barge-in makes of the program state p: the synthesis in flight is
\* stopped, the playback queue cleared, isBotSpeaking false, one barge-in
\* recorded
BargedIn(p, q) ==
    /\ ~q.tts.isSynthesizing
    /\ \A i \in DOMAIN q.tts.calls :
          /\ ~q.tts.calls[i].cur
          /\ p.tts.calls[i].cur => q.tts.calls[i].ws \notin {"connecting", "open"}
    /\ q.effects.playbackClears = p.effects.playbackClears + 1
    /\ ~q.context.isBotSpeaking
    /\ q.metrics.bargeInsTotal = p.metrics.bargeInsTotal + 1

\* the interims that follow q do nothing
BurstOver(q) == \A d \in InterimConfidences : handleInterimTranscript(q, d) = q

C10_InterimFrame ==
    [][InterimTranscript =>
          /\ DialogueOf(context') = DialogueOf(context)
          /\ context'.transcript = context.transcript
          /\ lastCall' = lastCall]_vars

C10_Reached ==
    /\ metrics.bargeInsTotal >= 1
    /\ context.currentState = "REJECTION"
    /\ context.transcript # <<>>
    /\ Called("handleUserInput")
\* the step hands a final transcript to the state machine
HandlesFinal == ~session.destroyed /\ FinalTranscript(SessionFinals, MaxTurns, Room)

\* C11: across every event the transcript only grows (the turns it held stay,
\* unchanged and in order, at the front), and turnCount grows by exactly 1
\* when a final transcript is handed to the state machine and by 0 on every
\* other event.
C11_Monotone ==
    [][/\ IsPrefix(context.transcript, context'.transcript)
       /\ context'.turnCount = context.turnCount + (IF HandlesFinal THEN 1 ELSE 0)]_vars

\* three finals were handled, a keypad answer and a barge-in as well
C11_Reached ==
    /\ context.turnCount = 3
    /\ Len(context.transcript) = 6
    /\ metrics.dtmfFallbacksTotal >= 1
    /\ metrics.bargeInsTotal >= 1

\* the invocations of handleFinalTranscript that are awaiting speak
InProgress ==
    {i \in DOMAIN tts.calls : tts.calls[i].pending /\ tts.calls[i].awaiter.kind = "final"}

\* C12: final-transcript turns are processed one at a time: handleUserInput
\* is not invoked for a final while an earlier invocation of
\* handleFinalTranscript is still in progress, so at most one invocation is
\* ever awaiting its response.
C12_OneTurnAtATime == Cardinality(InProgress) <= 1

\* the step evaluates the state machine and the result signals shouldEnd
SignalsEnd ==
    /\ lastCall' # lastCall
    /\ lastCall'[1].op \in {"handleUserInput", "handleDTMFInput"}
    /\ lastCall'[1].result # NULL
    /\ lastCall'[1].result[1].shouldEnd

\* C13: when the state machine signals shouldEnd, for a final transcript or
\* for a keypad answer, the session is not torn down in the same step; the
\* teardown waits for the 3 s grace timer.
C13_GraceBeforeTeardown ==
    [][(SignalsEnd /\ ~session.destroyed) => ~session'.destroyed]_vars

\* the step terminates the call: the session is destroyed by it
Terminates == ~session.destroyed /\ session'.destroyed

\* C14: every termination of a call, whatever triggers it (transport close,
\* grace timer, socket error, failure to start the pipeline), has handed the
\* call's context to the post-call collaborator exactly once.
C14_HandoffOnTermination ==
    [][(Terminates /\ ~Shutdown) => Len(effects'.handoffs) = 1]_vars

\* a final or interim transcript, a keypad digit or a timer callback arrives
CallerEvent ==
    \/ FinalTranscript(SessionFinals, MaxTurns, Room)
    \/ InterimTranscript
    \/ TransportDTMF(SessionEntries, MaxDtmf, Room)
    \/ DtmfTimer
    \/ GraceTimer

\* C15: once the session is destroyed, no final transcript, interim
\* transcript, keypad digit or timer callback changes currentState,
\* previousState, eligibility, turnCount, clarificationAttempts,
\* rejectionReason or the transcript, and none arms a timer.
C15_FrozenAfterDestroy ==
    [][(session.destroyed /\ CallerEvent) =>
          /\ DialogueOf(context') = DialogueOf(context)
          /\ context'.transcript = context.transcript
          /\ session'.dtmfTimer => session.dtmfTimer
          /\ Len(session'.graceTimers) <= Len(session.graceTimers)]_vars

\* C16: destroy closes both streaming channels for good: once the session
\* is destroyed no reconnect of the recognition channel is scheduled, no
\* recognition connection is being made or open, and no synthesis socket is
\* connecting or open.
C16_ClosedForGood ==
    session.destroyed =>
        /\ stt.reconnectTimers = <<>>
        /\ \A i \in DOMAIN stt.conns : stt.conns[i].state \notin {"connecting", "open"}
        /\ \A i \in DOMAIN tts.calls : tts.calls[i].ws \notin {"connecting", "open"}

\* C17: on a session that is running, reconnect attempt n since the last
\* successful open, n = 1..5, is scheduled with a delay of 2^(n-1) seconds
\* (1, 2, 4, 8, 16), and after 5 attempts none is scheduled.
C17_Backoff ==
    [][(~session.destroyed /\ Len(stt'.reconnectTimers) > Len(stt.reconnectTimers)) =>
          /\ stt'.reconnectAttempts = stt.reconnectAttempts + 1
          /\ stt'.reconnectAttempts \in 1..5
          /\ stt'.reconnectTimers =
                 Append(stt.reconnectTimers, pow2(stt'.reconnectAttempts - 1))]_vars

\* C18: when the reconnect attempts are used up and the error
\* STT_RECONNECT_EXHAUSTED has reached the session, the session is
\* eventually destroyed.
C18_ExhaustedEndsCall == (effects.reconnectExhausted > 0) ~> session.destroyed

\* the speak of a final-transcript turn is awaiting synthesize call i
SpeakingTurn(i) == tts.calls[i].pending /\ tts.calls[i].awaiter.kind = "final"

\* what a rejection of synthesize makes of the program state p: the error is
\* recorded, isBotSpeaking is false, the dialogue is as the state machine
\* left it, the turn's latency is recorded, and the session is destroyed
\* only if it was
Degraded(p, q) ==
    /\ q.metrics.errorsTotal.tts > p.metrics.errorsTotal.tts
    /\ ~q.context.isBotSpeaking
    /\ DialogueOf(q.context) = DialogueOf(p.context)
    /\ q.context.transcript = p.context.transcript
    /\ q.metrics.turnsTotal = p.metrics.turnsTotal + 1
    /\ q.session.destroyed = p.session.destroyed
    /\ q.metrics.callsTotal = p.metrics.callsTotal

\* C19: when synthesize rejects during the speak of a turn (socket error or
\* connect timeout), the error is caught, isBotSpeaking is set back to false,
\* the dialogue state of the turn is kept, the turn's latency is recorded and
\* the session is not destroyed by it.
C19_SynthesisFailure ==
    \A i \in DOMAIN tts.calls :
        SpeakingTurn(i) =>
            /\ (tts.calls[i].timer) => Degraded(Now, TTS_onTimeout(Now, i))
            /\ (tts.calls[i].ws \in {"connecting", "open"} /\ tts.listening) =>
                   Degraded(Now, TTS_onError(Now, i))

\* a turn whose synthesis failed: both the listener and the catch recorded
\* the error, the turn is complete and the call goes on in the state the
\* state machine reached
C19_Reached ==
    /\ Called("handleUserInput")
    /\ metrics.errorsTotal.tts = 2
    /\ metrics.turnsTotal = 1
    /\ ~context.isBotSpeaking
    /\ ~session.destroyed
    /\ context.currentState = Returned.newState
    /\ InProgress = {}

Questions == {"ASK_EMPLOYMENT", "ASK_SALARY", "ASK_LOCATION"}

\* the last call was a final below the confidence threshold, heard in a
\* question state, and the incremented counter stayed within the limit
LowConfidenceAnswer ==
    /\ Called("handleUserInput")
    /\ ~Confident
    /\ Before.currentState \in Questions
    /\ Before.clarificationAttempts + 1 <= MAX_CLARIFICATION_ATTEMPTS

\* C21: a final transcript below 0.7, heard in ASK_EMPLOYMENT, ASK_SALARY or
\* ASK_LOCATION while the incremented clarificationAttempts is at most 2,
\* runs no validator (eligibility unchanged), sets previousState to that
\* question and moves currentState to CLARIFICATION.
C21_LowConfidenceClarifies ==
    LowConfidenceAnswer =>
        /\ context.eligibility = Before.eligibility
        /\ context.previousState = Some(Before.currentState)
        /\ context.currentState = "CLARIFICATION"

\* C22: in every reachable state with currentState = DTMF_FALLBACK,
\* previousState is ASK_EMPLOYMENT or ASK_SALARY.
C22_FallbackFromKeyedQuestion ==
    context.currentState = "DTMF_FALLBACK" =>
        context.previousState \in {Some("ASK_EMPLOYMENT"), Some("ASK_SALARY")}

\* the last call handed keys to the state machine while it waited for the
\* keypad answer to the employment question
KeyedEmploymentAnswer ==
    /\ Called("handleDTMFInput")
    /\ Before.currentState = "DTMF_FALLBACK"
    /\ Before.previousState = Some("ASK_EMPLOYMENT")

Keyed == lastCall[1].digit

\* C23: in DTMF_FALLBACK with previousState = ASK_EMPLOYMENT, key 1 sets
\* isSalaried to true and moves to ASK_SALARY, key 2 rejects with reason
\* 'employment', and any other input re-prompts without shouldEnd, leaving
\* currentState = DTMF_FALLBACK and eligibility unchanged.
C23_KeyedEmployment ==
    KeyedEmploymentAnswer =>
        CASE Keyed = <<"1">> ->
                 /\ context.eligibility.isSalaried = Some(TRUE)
                 /\ context.currentState = "ASK_SALARY"
          [] Keyed = <<"2">> ->
                 /\ context.currentState = "REJECTION"
                 /\ context.rejectionReason = Some("employment")
          [] OTHER ->
                 /\ Returned.response = <<"EMPLOYMENT_DTMF_FALLBACK">>
                 /\ ~Returned.shouldEnd
                 /\ context.currentState = "DTMF_FALLBACK"
                 /\ context.eligibility = Before.eligibility

C23_Reached ==
    /\ KeyedEmploymentAnswer
    /\ Keyed = <<"3">>
    /\ Returned.response = <<"EMPLOYMENT_DTMF_FALLBACK">>
    /\ context.currentState = "DTMF_FALLBACK"

\* the bot waits for the salary on the keypad
SalaryFallback ==
    /\ context.currentState = "DTMF_FALLBACK"
    /\ context.previousState = Some("ASK_SALARY")

\* the program after the key arrives in the present state
AfterKey(digit) == handleTransportDTMF(Now, digit)

\* the last call handed keys to the state machine while it waited for the
\* keypad answer to the salary question
KeyedSalaryFallback ==
    /\ KeyedSalaryAnswer
    /\ Before.currentState = "DTMF_FALLBACK"

KeysPending == session.dtmfBuffer # <<>> /\ ~session.destroyed

\* the program after the inactivity timer fires in the present state
AfterTimeout == dtmfTimerFired(Now)

\* the timer callback does what the '#' key does while keys are accepted
FlushesAsHash ==
    /\ AfterTimeout.lastCall[1].op = "handleDTMFInput"
    /\ AfterTimeout.lastCall[1].digit = session.dtmfBuffer
    /\ AfterTimeout.lastCall[1].pre = DialogueOf(context)
    /\ AfterTimeout.session.dtmfBuffer = <<>>
    /\ context.currentState = "DTMF_FALLBACK" =>
          /\ AfterTimeout.context = AfterKey("#").context
          /\ AfterTimeout.lastCall = AfterKey("#").lastCall
          /\ AfterTimeout.session = AfterKey("#").session
          /\ AfterTimeout.tts = AfterKey("#").tts
          /\ AfterTimeout.effects = AfterKey("#").effects

SalaryRejected == context.rejectionReason = Some("salary")

\* C26: once the call is in REJECTION with reason 'salary', no later final
\* transcript, key or timer event changes eligibility.salary.
C26_RejectedSalaryKept ==
    [][SalaryRejected => context'.eligibility.salary = context.eligibility.salary]_vars

\* the last call ran rejectCall on a context that already held a reason
ReasonRewritten ==
    /\ lastCall # NULL
    /\ lastCall[1].result # NULL
    /\ Before.rejectionReason # NULL
    /\ Returned.response # <<>>
    /\ Head(Returned.response) = "REJECTION_MESSAGES"

\* C27: rejectionReason is written at most once per session, in the step
\* that enters REJECTION: it is null until then and is never written again.
C27_ReasonWrittenOnce ==
    /\ [][/\ context.rejectionReason # NULL =>
                context'.rejectionReason = context.rejectionReason
          /\ context'.rejectionReason # context.rejectionReason =>
                context.currentState # "REJECTION" /\ context'.currentState = "REJECTION"]_vars
    /\ []~ReasonRewritten

Answering ==
    IF Before.currentState \in Questions THEN Before.currentState
    ELSE IF Before.currentState \in {"CLARIFICATION", "DTMF_FALLBACK"}
            /\ Before.previousState # NULL
    THEN Before.previousState[1]
    ELSE "none"

\* the last input was a spoken answer its validator resolved, or keys the
\* keypad handler resolved
AnsweredUnambiguously ==
    \/ /\ Called("handleUserInput")
       /\ Confident \/ Before.currentState = "DTMF_FALLBACK"
       /\ CASE Answering = "ASK_EMPLOYMENT" -> employmentOf[Heard] # NULL
            [] Answering = "ASK_SALARY" -> salaryOf[Heard] # NULL
            [] Answering = "ASK_LOCATION" -> locationOf[Heard] # NULL
            [] OTHER -> FALSE
    \/ /\ Called("handleDTMFInput")
       /\ CASE Before.previousState = Some("ASK_EMPLOYMENT") -> Keyed \in {<<"1">>, <<"2">>}
            [] Before.previousState = Some("ASK_SALARY") -> SalaryParser_parseDTMF(Keyed) # NULL
            [] OTHER -> FALSE

\* C29: after any turn in which a question is answered unambiguously,
\* clarificationAttempts is 0.
C29_AttemptsResetOnAnswer ==
    AnsweredUnambiguously => context.clarificationAttempts = 0

\* C30: for a salaried caller with salary 35000 the answer "Pune" to the
\* location question rejects the call with reason 'location'.
C30_NonMetroRejected ==
    (Called("handleUserInput") /\ Confident /\ Heard = "Pune" /\ Before = AskingLocation) =>
        /\ context.currentState = "REJECTION"
        /\ context.rejectionReason = Some("location")
        /\ Returned.shouldEnd
\* ---------------------------------------------------------------------
\* Start events, teardown, latency records, synthesis and turn counters

\* C31: startConversation runs at most once per session and never after a
\* user input has been processed, however many start events the transport
\* delivers: whenever it has run, the dialogue before it was the initial
\* one (GREETING, no turn counted).
C31_StartsOnce ==
    Called("startConversation") =>
        /\ Before.currentState = "GREETING"
        /\ Before.turnCount = 0

\* a live session has handled a final transcript whose result signals the
\* end of the call
EndSignalled ==
    /\ Called("handleUserInput")
    /\ lastCall[1].result # NULL
    /\ Returned.shouldEnd
    /\ ~session.destroyed

\* C32: whenever the state machine returns shouldEnd for a final transcript
\* of a live session, the session is eventually torn down by the session
\* itself, with no transport close, also when the last utterance is
\* interrupted by a barge-in.
C32_EndsItself == EndSignalled ~> session.destroyed

\* C33: for every final transcript handled by a live session exactly one
\* turn-latency record is eventually made, the turn-start marker being
\* reset with it, whether the synthesis of the response completes, fails
\* or is cancelled (a session torn down meanwhile is not held to it).
C33_TurnRecorded ==
    /\ [](metrics.turnsTotal <= session.turnCounter)
    /\ [][metrics'.turnsTotal > metrics.turnsTotal => session'.turnStartNs = 0]_vars
    /\ \A n \in 1..MaxOverlapTurns :
          (session.turnCounter >= n) ~> (metrics.turnsTotal >= n \/ session.destroyed)

\* a promise returned by synthesize is neither resolved nor rejected
Unsettled == \E i \in DOMAIN tts.calls : tts.calls[i].pending

\* C34: every synthesize call eventually settles, also when stop() is
\* called while it is in flight, when a newer synthesize pre-empts it, or
\* when its socket closes without a final message.
C34_SynthesizeSettles == Unsettled ~> ~Unsettled

Verdicts == {"ELIGIBLE_CONFIRMATION", "REJECTION"}

StillAsking ==
    Questions \cup {"GREETING", "CLARIFICATION", "DTMF_FALLBACK"}

\* C35: once the dialogue has entered ELIGIBLE_CONFIRMATION or REJECTION, no
\* later event (final transcript, key, inactivity timer) moves it to a state
\* in which a question is still open.
C35_VerdictStays ==
    [][context.currentState \in Verdicts
          => context'.currentState \notin StillAsking]_vars

Metros == {"delhi", "mumbai", "bangalore"}

Sound(e) ==
    /\ e.isSalaried = Some(TRUE)
    /\ e.salary # NULL
    /\ e.salary[1] >= 25000
    /\ e.location # NULL
    /\ e.location[1] \in Metros

SoundJob(r) ==
    /\ r.isSalaried
    /\ r.salary # NULL
    /\ r.salary[1] >= 25000
    /\ r.location # NULL
    /\ r.location[1] \in Metros

\* C36: whenever the dialogue is in ELIGIBLE_CONFIRMATION, and whenever the
\* outcome handed off is 'eligible', the caller is salaried, the salary is at
\* least 25000 and the city is one of delhi, mumbai, bangalore.
C36_EligibilitySound ==
    /\ context.currentState = "ELIGIBLE_CONFIRMATION" => Sound(context.eligibility)
    /\ \A i \in DOMAIN effects.handoffs :
          effects.handoffs[i].eligibilityResult.eligible
              => SoundJob(effects.handoffs[i].eligibilityResult)

\* the inactivity timer fires: no key is counted and the session lives on
TimerStep ==
    /\ session.dtmfTimer
    /\ ~session'.dtmfTimer
    /\ ~session'.destroyed
    /\ metrics'.dtmfFallbacksTotal = metrics.dtmfFallbacksTotal

\* C37: no event makes more than one handleDTMFInput call, and the timer
\* armed by a key that was already handled (employment key 1 or 2, or a
\* buffer flushed by '#') makes none.
C37_NeverDoubleFires ==
    /\ [][effects'.dtmfCalls <= effects.dtmfCalls + 1]_vars
    /\ [][(TimerStep /\ session.dtmfBuffer = <<>>)
            => effects'.dtmfCalls = effects.dtmfCalls]_vars

\* key 1 answered the employment question and its timer has fired since
C37_Reached ==
    /\ effects.dtmfCalls = 1
    /\ Called("handleDTMFInput")
    /\ Keyed = <<"1">>
    /\ metrics.dtmfFallbacksTotal = 1
    /\ ~session.dtmfTimer
    /\ ~session.destroyed

\* C38: after every handleUserInput or handleDTMFInput call that returns
\* normally, the returned newState is the state machine's currentState.
C38_ReturnsCurrentState ==
    ((Called("handleUserInput") \/ Called("handleDTMFInput")) /\ lastCall[1].result # NULL)
        => Returned.newState = context.currentState

\* a synthesis is running: the current socket of the client is connecting or
\* open and its promise unsettled; stop(), and so a barge-in, closes it
InFlight ==
    \E i \in DOMAIN tts.calls :
        /\ tts.calls[i].cur
        /\ tts.calls[i].pending
        /\ tts.calls[i].ws \in {"connecting", "open"}

\* C39: isBotSpeaking is true whenever a synthesis started by speak() is in
\* flight and was not cancelled by a barge-in, also when an earlier speak
\* call completes, fails or is pre-empted meanwhile.
C39_SpeakingWhileInFlight == InFlight => context.isBotSpeaking

RECURSIVE turnsOf(_, _)
turnsOf(transcript, speaker) ==
    IF transcript = <<>> THEN 0
    ELSE (IF Head(transcript).speaker = speaker THEN 1 ELSE 0)
             + turnsOf(Tail(transcript), speaker)

BotTurnsOf(n) ==
    {i \in DOMAIN context.transcript :
        context.transcript[i].speaker = "bot" /\ context.transcript[i].turnId = n}

\* C40: the orchestrator's turn counter, the state machine's turnCount and
\* the number of user turns in the transcript are the same number, and the
\* transcript holds at most one bot turn for each user turn.
C40_TurnCountsAgree ==
    /\ session.turnCounter = context.turnCount
    /\ turnsOf(context.transcript, "user") = context.turnCount
    /\ turnsOf(context.transcript, "bot") <= turnsOf(context.transcript, "user")
    /\ \A n \in 0..session.turnCounter : Cardinality(BotTurnsOf(n)) <= 1

C40_Reached ==
    /\ session.turnCounter = MaxTurns
    /\ turnsOf(context.transcript, "bot") = MaxTurns
    /\ effects.dtmfCalls > 0

====
